---- MODULE Spec2Model ----
(***************************************************************************)
(* A model of pubtools.pulplib's Repository                                *)
(* (src/pubtools/pulplib/_impl/model/repository/base.py): the operations   *)
(* of a repository against its client (search_content, publish, sync,      *)
(* remove_content), the upload-then-import chain of futures, the           *)
(* distributors validator, the mutable-notes payload, pv_converter, the    *)
(* lock of a repository and the decoding of Pulp data (from_data).         *)
(*                                                                         *)
(* Python values are tagged records, so that None, booleans, strings and   *)
(* lists can be compared with each other: None is [py |-> "None"], True is *)
(* [py |-> "bool", v |-> TRUE], a list is [py |-> "list", items |-> <<>>]. *)
(***************************************************************************)
EXTENDS Integers, Sequences, FiniteSets, TLC

VARIABLES
    repo,      \* the Repository: its id and its distributors (frozen fields)
    client,    \* the Repository's _client: None when detached
    dclient,   \* the _client of each of the Repository's distributors
    last,      \* the most recent call on the repository and what it did
    chains,    \* per upload-then-import chain: its futures and remote calls
    ctor,      \* a Repository construction: its arguments and its outcome
    notes,     \* a Repository's encoded form and its mutable-notes payload
    locks,     \* the lock of the repository: its record, the clients and the time
    pvcall,    \* a pv_converter call: its argument and its outcome
    decode     \* a from_data call: the registry, the data and the outcome

vars == <<repo, client, dclient, last, chains, ctor, notes, locks, pvcall, decode>>

----------------------------------------------------------------------------
(* Python values *)

None == [py |-> "None"]
True == [py |-> "bool", v |-> TRUE]
False == [py |-> "bool", v |-> FALSE]
PyStr(s) == [py |-> "str", s |-> s]
PyList(xs) == [py |-> "list", items |-> xs]

\* Python's truth value of x, as `if x` and `not x` read it.
Truthy(x) ==
    /\ x # None
    /\ x # False
    /\ x # PyStr("")
    /\ x # PyList(<<>>)

\* The client a repository is attached to.
TheClient == [py |-> "Client"]

----------------------------------------------------------------------------
(* Bounds *)

\* The most distributors a repository of the model has.
MaxDists == 2
\* The most extensions registered on the pre-publish hook.
MaxHooks == 2

\* All sequences over S of length at most n.
SeqsUpTo(S, n) == UNION {[1..k -> S] : k \in 0..n}

----------------------------------------------------------------------------
(* Distributors and options *)

\* _PUBLISH_DISTRIBUTORS with a slip: two ids listed the other way round.
_PUBLISH_DISTRIBUTORS_reordered ==
    << "yum_distributor",
       "iso_distributor",
       "cdn_distributor",
       "cdn_distributor_unprotected",
       "docker_web_distributor_name_cli" >>

\* Repository._PUBLISH_DISTRIBUTORS: the distributors (by id) activated by a
\* publish, in the order they are invoked.
_PUBLISH_DISTRIBUTORS ==
    << "iso_distributor",
       "yum_distributor",
       "cdn_distributor",
       "cdn_distributor_unprotected",
       "docker_web_distributor_name_cli" >>

\* A Distributor object, as far as the repository reads it.
Distributor(id, is_rsync, repo_id) ==
    [py |-> "Distributor", id |-> id, is_rsync |-> is_rsync, repo_id |-> repo_id]

\* The distributors a repository of the model is built from: one per id of
\* the allow-list, and one that a publish does not know.
DistributorPool ==
    { Distributor("iso_distributor", FALSE, None),
      Distributor("yum_distributor", FALSE, None),
      Distributor("cdn_distributor", TRUE, None),
      Distributor("cdn_distributor_unprotected", TRUE, None),
      Distributor("docker_web_distributor_name_cli", FALSE, None),
      Distributor("rsync_other_distributor", TRUE, None) }

\* PublishOptions(force, clean, origin_only, rsync_extra_args): every field
\* defaults to None.
PublishOptions(force, clean, origin_only, rsync_extra_args) ==
    [py |-> "PublishOptions", force |-> force, clean |-> clean,
     origin_only |-> origin_only, rsync_extra_args |-> rsync_extra_args]

\* The options a caller of the model passes to publish.
PublishOptionsPool ==
    { PublishOptions(None, None, None, None),
      PublishOptions(True, None, None, None),
      PublishOptions(False, None, False, None),
      PublishOptions(None, False, True, None),
      PublishOptions(None, None, None, PyList(<<"-a">>)),
      PublishOptions(True, True, True, PyList(<<"-a">>)) }

\* What an extension of the pre-publish hook returns: nothing, or options
\* replacing the caller's.
HookReturnPool ==
    { None,
      PublishOptions(None, None, True, None),
      PublishOptions(True, None, False, None) }

\* Repository._distributors_by_id.get(id): the dict is filled in the order of
\* self.distributors, so the last distributor with an id is the one kept.
_distributors_by_id_get(self, id) ==
    LET idx == {i \in 1..Len(self.distributors) : self.distributors[i].id = id}
    IN IF idx = {} THEN None
       ELSE self.distributors[CHOOSE i \in idx : \A j \in idx : j <= i]

\* _config_for_distributor without the is_rsync test: every distributor gets
\* the rsync keys.
_config_for_distributor_all_rsync(distributor, options) ==
    LET keys == {k \in {"delete", "content_units_only", "rsync_extra_args", "force_full"} :
                    CASE k = "delete" -> options.clean # None
                      [] k = "content_units_only" -> options.origin_only # None
                      [] k = "rsync_extra_args" -> options.rsync_extra_args # None
                      [] k = "force_full" -> options.force # None}
    IN [k \in keys |->
           CASE k = "delete" -> options.clean
             [] k = "content_units_only" -> options.origin_only
             [] k = "rsync_extra_args" -> options.rsync_extra_args
             [] k = "force_full" -> options.force]

\* Repository._config_for_distributor: the config dict sent for one
\* distributor.
_config_for_distributor(distributor, options) ==
    LET rsync == IF distributor.is_rsync
                 THEN {k \in {"delete", "content_units_only", "rsync_extra_args"} :
                          CASE k = "delete" -> options.clean # None
                            [] k = "content_units_only" -> options.origin_only # None
                            [] k = "rsync_extra_args" -> options.rsync_extra_args # None}
                 ELSE {}
        keys == rsync \cup (IF options.force # None THEN {"force_full"} ELSE {})
    IN [k \in keys |->
           CASE k = "delete" -> options.clean
             [] k = "content_units_only" -> options.origin_only
             [] k = "rsync_extra_args" -> options.rsync_extra_args
             [] k = "force_full" -> options.force]

\* The origin_only test of publish, with a slip: the id of the distributor is
\* not looked at.
skipped_for_origin_only_any_id(distributor, options) ==
    Truthy(options.origin_only)

\* The test of publish that leaves a distributor out of an origin_only
\* publish.
skipped_for_origin_only(distributor, options) ==
    /\ distributor.id = "docker_web_distributor_name_cli"
    /\ Truthy(options.origin_only)

\* One (distributor, config) pair of the list publish submits.
PublishEntry(distributor, config) == [distributor |-> distributor, config |-> config]

\* The loop of publish over the candidate ids from the i-th on: the pairs
\* appended to to_publish.
RECURSIVE to_publish_from(_, _, _, _)
to_publish_from(self, options, candidate_distributor_ids, i) ==
    IF i > Len(candidate_distributor_ids) THEN <<>>
    ELSE LET candidate == candidate_distributor_ids[i]
             distributor == _distributors_by_id_get(self, candidate)
             rest == to_publish_from(self, options, candidate_distributor_ids, i + 1)
         IN IF ~Truthy(distributor) THEN rest
            ELSE IF skipped_for_origin_only(distributor, options) THEN rest
            ELSE <<PublishEntry(distributor, _config_for_distributor(distributor, options))>>
                     \o rest

\* The list of publish, built from the allow-list.
to_publish(self, options) == to_publish_from(self, options, _PUBLISH_DISTRIBUTORS, 1)

----------------------------------------------------------------------------
(* Sync options, criteria *)

\* The fields of SyncOptions, in the order of the class.
SyncFields ==
    << "feed", "ssl_validation", "ssl_ca_cert", "ssl_client_cert", "ssl_client_key",
       "max_speed", "proxy_host", "proxy_port", "proxy_username", "proxy_password",
       "basic_auth_username", "basic_auth_password" >>

SyncFieldSet == {SyncFields[i] : i \in 1..Len(SyncFields)}

\* SyncOptions(feed=feed, **given): every field but feed defaults to None.
SyncOptions(feed, given) ==
    [py |-> "SyncOptions",
     fields |-> [f \in SyncFieldSet |->
                    IF f = "feed" THEN feed
                    ELSE IF f \in DOMAIN given THEN given[f] ELSE None]]

\* The options a caller of the model passes to sync: none at all, or
\* SyncOptions with some of the fields set.
SyncOptionsPool ==
    { None,
      SyncOptions(PyStr("http://feed"), <<>>),
      SyncOptions(PyStr(""), [ssl_validation |-> False]),
      SyncOptions(PyStr("http://feed"),
                  [ssl_validation |-> True, max_speed |-> [py |-> "int", n |-> 10],
                   proxy_host |-> PyStr("proxy")]) }

\* attr.asdict(options) without a filter: every field, set or not.
asdict_unfiltered(options) == [f \in SyncFieldSet |-> options.fields[f]]

\* attr.asdict(options, filter=lambda name, val: val is not None)
asdict_not_none(options) ==
    [f \in {g \in SyncFieldSet : options.fields[g] # None} |-> options.fields[f]]

\* Matcher.in_(values)
Matcher_in_(values) == [py |-> "Matcher", kind |-> "in", values |-> values]

\* Criteria.with_field(field, value)
Criteria_with_field(field, value) ==
    [py |-> "Criteria", kind |-> "field", field |-> field, value |-> value]

\* The criteria a caller of the model passes.
CriteriaPool ==
    { None,
      Criteria_with_field("content_type_id", PyStr("iso")),
      Criteria_with_field("content_type_id", Matcher_in_(PyList(<<"rpm">>))),
      Criteria_with_field("name", PyStr("bash")) }

\* The type_ids keyword a caller of the model passes to remove_content (None:
\* not passed).
TypeIdsPool == {None, PyList(<<>>), PyList(<<"rpm">>), PyList(<<"rpm", "srpm">>)}

\* The task lists a remote request of the model resolves with.
TasksPool == {PyList(<<>>), PyList(<<"task1", "task2">>)}

----------------------------------------------------------------------------
(* The operations of a Repository. Each gives the record of the call: the  *)
(* exception raised (None: none), the remote calls and hook calls issued,  *)
(* in order, and the state of the handle returned.                         *)

\* A future: not created ("none"), "pending", resolved with a value ("ok") or
\* with an exception ("err").
NoFuture == [st |-> "none", val |-> None]
Pending == [st |-> "pending", val |-> None]
Resolved(val) == [st |-> "ok", val |-> val]
Failed(exc) == [st |-> "err", val |-> exc]

IsDone(f) == f.st \in {"ok", "err"}

\* future.result() in a callback, which must not block: the value, the
\* exception raised, or the callback blocked on a future not yet resolved.
result(f) ==
    CASE f.st = "ok" -> f.val
      [] f.st = "err" -> [py |-> "raise", exc |-> f.val]
      [] OTHER -> [py |-> "blocks"]

DetachedException == PyStr("DetachedException")

\* A call that raised before returning a handle: no request was made.
RaisedCall(op, args, exc) ==
    [op |-> op, args |-> args, raised |-> exc, issued |-> <<>>,
     request |-> NoFuture, handle |-> "none", result |-> None]

\* A call that returned a handle on a request in flight: request is the
\* future of the client's request, handle the state of the handle returned.
PendingCall(op, args, issued) ==
    [op |-> op, args |-> args, raised |-> None, issued |-> issued,
     request |-> Pending, handle |-> "pending", result |-> None]

\* Repository.search_content(criteria)
search_content(self, cl, criteria) ==
    LET args == [criteria |-> criteria]
    IN IF ~Truthy(cl) THEN RaisedCall("search_content", args, DetachedException)
       ELSE PendingCall("search_content", args,
                << [call |-> "_search_repo_units", repo_id |-> self.id,
                    criteria |-> criteria] >>)

\* publish with a slip: the pre-publish hook is activated before the client
\* is looked at.
publish_hook_before_check(self, cl, options, hook_rets) ==
    [RaisedCall("publish", [options |-> options, hook_rets |-> hook_rets],
                DetachedException)
        EXCEPT !.issued = << [call |-> "pulp_repository_pre_publish", repository |-> self,
                              options |-> options] >>]

\* publish adopting the last replacement the extensions returned, not the
\* first.
publish_last_replacement(self, cl, options, hook_rets) ==
    LET args == [options |-> options, hook_rets |-> hook_rets]
    IN IF ~Truthy(cl) THEN RaisedCall("publish", args, DetachedException)
       ELSE LET rets == SelectSeq(hook_rets, LAMBDA ret : ret # None)
                opts == IF Len(rets) > 0 THEN rets[Len(rets)] ELSE options
            IN PendingCall("publish",
                   [options |-> options, hook_rets |-> hook_rets, closure_options |-> opts],
                   << [call |-> "pulp_repository_pre_publish", repository |-> self,
                       options |-> options],
                      [call |-> "_publish_repository", repository |-> self,
                       to_publish |-> to_publish(self, opts)] >>)

\* Repository.publish(options), where the extensions registered on the
\* pre-publish hook return hook_rets: up to the return of the handle.
publish(self, cl, options, hook_rets) ==
    LET args == [options |-> options, hook_rets |-> hook_rets]
    IN IF ~Truthy(cl) THEN RaisedCall("publish", args, DetachedException)
       ELSE LET rets == SelectSeq(hook_rets, LAMBDA ret : ret # None)
                opts == IF Len(rets) > 0 THEN rets[1] ELSE options
            IN PendingCall("publish",
                   [options |-> options, hook_rets |-> hook_rets, closure_options |-> opts],
                   << [call |-> "pulp_repository_pre_publish", repository |-> self,
                       options |-> options],
                      [call |-> "_publish_repository", repository |-> self,
                       to_publish |-> to_publish(self, opts)] >>)

\* do_published_hook writing the options in effect into the options object
\* of the caller.
do_published_hook_sets_options(self, call, tasks) ==
    [call EXCEPT
        !.args.options = call.args.closure_options,
        !.issued = Append(call.issued,
                      [call |-> "pulp_repository_published", repository |-> self,
                       options |-> call.args.closure_options]),
        !.handle = "resolved",
        !.result = tasks]

\* do_published_hook whose hook gets the options as the caller passed them,
\* as if publish had not rebound its options variable.
do_published_hook_caller_options(self, call, tasks) ==
    [call EXCEPT
        !.issued = Append(call.issued,
                      [call |-> "pulp_repository_published", repository |-> self,
                       options |-> call.args.options]),
        !.handle = "resolved",
        !.result = tasks]

\* do_published_hook without its "return tasks": the handle resolves with
\* what the function returns, None.
do_published_hook_no_return(self, call, tasks) ==
    [call EXCEPT
        !.issued = Append(call.issued,
                      [call |-> "pulp_repository_published", repository |-> self,
                       options |-> call.args.closure_options]),
        !.handle = "resolved",
        !.result = None]

\* do_published_hook(tasks), the callback of publish on the request's tasks:
\* the record of the publish once the request has succeeded.
do_published_hook(self, call, tasks) ==
    [call EXCEPT
        !.issued = Append(call.issued,
                      [call |-> "pulp_repository_published", repository |-> self,
                       options |-> call.args.closure_options]),
        !.handle = "resolved",
        !.result = tasks]

\* A failed request whose failure would still run the callback of f_map.
request_failed_runs_callback(call, exc) ==
    [call EXCEPT
        !.request = Failed(exc),
        !.issued = Append(call.issued,
                      [call |-> "pulp_repository_published", repository |-> None,
                       options |-> None]),
        !.handle = "failed",
        !.result = exc]

\* The request of a call fails with exc: f_map runs its function on success
\* only and hands a failure on, and so does f_proxy, so the handle fails with
\* exc and nothing else is issued.
request_failed(call, exc) ==
    [call EXCEPT !.request = Failed(exc), !.handle = "failed", !.result = exc]

\* Repository.sync(options)
sync(self, cl, options) ==
    LET args == [options |-> options]
        opts == IF Truthy(options) THEN options ELSE SyncOptions(PyStr(""), <<>>)
    IN IF ~Truthy(cl) THEN RaisedCall("sync", args, DetachedException)
       ELSE PendingCall("sync", args,
                << [call |-> "_do_sync", repo_id |-> self.id,
                    sync_config |-> asdict_not_none(opts)] >>)

\* remove_content with a slip: type_ids, when given, replace the criteria.
remove_content_type_ids_first(self, cl, criteria, type_ids) ==
    LET args == [criteria |-> criteria, type_ids |-> type_ids]
        crit == IF type_ids # None
                THEN [py |-> "Criteria", kind |-> "field", field |-> "content_type_id",
                      value |-> [py |-> "Matcher", kind |-> "in", values |-> type_ids]]
                ELSE criteria
    IN IF ~Truthy(cl)
       THEN [op |-> "remove_content", args |-> args, raised |-> PyStr("DetachedException"),
             issued |-> <<>>, request |-> NoFuture, handle |-> "none", result |-> None]
       ELSE [op |-> "remove_content", args |-> args, raised |-> None,
             issued |-> << [call |-> "_do_unassociate", repo_id |-> self.id,
                            criteria |-> crit] >>,
             request |-> Pending, handle |-> "pending", result |-> None]

\* Repository.remove_content(criteria, type_ids=type_ids)
remove_content(self, cl, criteria, type_ids) ==
    LET args == [criteria |-> criteria, type_ids |-> type_ids]
        crit == IF ~Truthy(criteria) /\ type_ids # None
                THEN Criteria_with_field("content_type_id", Matcher_in_(type_ids))
                ELSE criteria
    IN IF ~Truthy(cl) THEN RaisedCall("remove_content", args, DetachedException)
       ELSE PendingCall("remove_content", args,
                << [call |-> "_do_unassociate", repo_id |-> self.id,
                    criteria |-> crit] >>)

----------------------------------------------------------------------------
(* Futures, and the upload-then-import chain *)

\* The chains of the model that run interleaved.
NumChains == 2
Chains == 1..NumChains

\* The upload ids the remote gives out.
UploadIdPool == {"upload1", "upload2"}

\* A chain not yet started.
IdleChain ==
    [st |-> "idle", file_obj |-> None, unit_key_fn |-> None, unit_metadata_fn |-> None,
     raised |-> None, calls |-> <<>>,
     request_f |-> NoFuture,          \* self._client._request_upload(name)
     upload_id_f |-> NoFuture,
     do_upload_f |-> NoFuture,        \* self._client._do_upload_file(...)
     upload_complete_f |-> NoFuture,
     do_import_f |-> NoFuture,        \* self._client._do_import(...)
     import_complete_f |-> NoFuture,
     delete_f |-> NoFuture]           \* self._client._delete_upload_request(...)

\* The callback on import_complete_f reading the upload id from one place
\* shared by all chains, which holds the id of another chain.
on_import_complete_shared_id(self, ch) ==
    [ch EXCEPT
        !.calls = Append(ch.calls,
                     [call |-> "_delete_upload_request", upload_id |-> PyStr("upload1")]),
        !.delete_f = Pending]

\* The callback of the f_map on import_complete_f, run when the import has
\* succeeded: the upload request is deleted.
on_import_complete(self, ch) ==
    [ch EXCEPT
        !.calls = Append(ch.calls,
                     [call |-> "_delete_upload_request",
                      upload_id |-> result(ch.upload_id_f)]),
        !.delete_f = Pending]

\* The callback of the f_flat_map on upload_complete_f, run when it has
\* resolved with upload: the unit key and metadata are derived and the import
\* is submitted.
on_upload_complete(self, ch, upload) ==
    LET key_fn == IF Truthy(ch.unit_key_fn) THEN ch.unit_key_fn ELSE PyStr("lambda _: {}")
        meta_fn == IF Truthy(ch.unit_metadata_fn) THEN ch.unit_metadata_fn
                   ELSE PyStr("lambda _: None")
        unit_key == [py |-> "applied", fn |-> key_fn, arg |-> upload]
        unit_metadata == [py |-> "applied", fn |-> meta_fn, arg |-> upload]
    IN [ch EXCEPT
           !.upload_complete_f = Resolved(upload),
           !.calls = ch.calls \o
               << [call |-> "unit_key_fn", fn |-> key_fn, arg |-> upload],
                  [call |-> "unit_metadata_fn", fn |-> meta_fn, arg |-> upload],
                  [call |-> "_do_import", repo_id |-> self.id,
                   upload_id |-> result(ch.upload_id_f),
                   unit_key |-> unit_key, unit_metadata |-> unit_metadata] >>,
           !.do_import_f = Pending,
           !.import_complete_f = Pending]

\* The callbacks on upload_id_f with a slip: without a file, the upload
\* completes with the upload id instead of None.
on_upload_id_passes_id(self, ch, upload_id) ==
    LET got == [ch EXCEPT !.upload_id_f = Resolved(upload_id)]
    IN IF ch.file_obj = None
       THEN on_upload_complete(self, got, upload_id)
       ELSE [got EXCEPT
                !.calls = Append(got.calls,
                             [call |-> "_do_upload_file", upload_id |-> upload_id,
                              file_obj |-> ch.file_obj]),
                !.do_upload_f = Pending]

\* The callbacks on upload_id_f, run when the upload request has resolved
\* with upload_id: without a file the upload is complete at once, with None;
\* with one, its bytes are uploaded.
on_upload_id(self, ch, upload_id) ==
    LET got == [ch EXCEPT !.upload_id_f = Resolved(upload_id)]
    IN IF ch.file_obj = None
       THEN on_upload_complete(self, got, None)
       ELSE [got EXCEPT
                !.calls = Append(got.calls,
                             [call |-> "_do_upload_file", upload_id |-> upload_id,
                              file_obj |-> ch.file_obj]),
                !.do_upload_f = Pending]

\* A failed step after which the callback behind still runs: the import is
\* submitted all the same.
chain_failed_still_imports(ch, exc) ==
    [ch EXCEPT
        !.upload_id_f = IF IsDone(ch.upload_id_f) THEN ch.upload_id_f ELSE Failed(exc),
        !.upload_complete_f =
            IF IsDone(ch.upload_complete_f) THEN ch.upload_complete_f ELSE Failed(exc),
        !.calls = Append(ch.calls, [call |-> "_do_import", repo_id |-> "repo1",
                                    upload_id |-> None, unit_key |-> None,
                                    unit_metadata |-> None]),
        !.do_import_f = IF ch.do_import_f.st = "none" THEN Pending ELSE ch.do_import_f,
        !.import_complete_f = Failed(exc)]

\* An exception exc in a step of the chain: f_map and f_flat_map hand it on
\* to every future chained behind, without running their callbacks.
chain_failed(ch, exc) ==
    [ch EXCEPT
        !.upload_id_f = IF IsDone(ch.upload_id_f) THEN ch.upload_id_f ELSE Failed(exc),
        !.upload_complete_f =
            IF IsDone(ch.upload_complete_f) THEN ch.upload_complete_f ELSE Failed(exc),
        !.import_complete_f = Failed(exc)]

\* _upload_then_import with a slip: the bytes are uploaded at once, without
\* waiting for the upload request.
_upload_then_import_eager(self, cl, file_obj, unit_key_fn, unit_metadata_fn) ==
    LET ch == [IdleChain EXCEPT !.file_obj = file_obj, !.unit_key_fn = unit_key_fn,
                                !.unit_metadata_fn = unit_metadata_fn]
    IN IF ~Truthy(cl)
       THEN [ch EXCEPT !.st = "raised", !.raised = PyStr("DetachedException")]
       ELSE [ch EXCEPT
                !.st = "running",
                !.calls = << [call |-> "_request_upload"] >> \o
                          (IF file_obj = None THEN <<>>
                           ELSE << [call |-> "_do_upload_file",
                                    upload_id |-> result(Pending),
                                    file_obj |-> file_obj] >>),
                !.request_f = Pending,
                !.upload_id_f = Pending,
                !.do_upload_f = IF file_obj = None THEN NoFuture ELSE Pending,
                !.upload_complete_f = Pending,
                !.import_complete_f = Pending]

\* Repository._upload_then_import(file_obj, name, type_id, unit_key_fn,
\* unit_metadata_fn): up to the return of the handle.
_upload_then_import(self, cl, file_obj, unit_key_fn, unit_metadata_fn) ==
    LET ch == [IdleChain EXCEPT !.file_obj = file_obj, !.unit_key_fn = unit_key_fn,
                                !.unit_metadata_fn = unit_metadata_fn]
    IN IF ~Truthy(cl)
       THEN [ch EXCEPT !.st = "raised", !.raised = DetachedException]
       ELSE [ch EXCEPT
                !.st = "running",
                !.calls = << [call |-> "_request_upload"] >>,
                !.request_f = Pending,
                !.upload_id_f = Pending,
                !.upload_complete_f = Pending,
                !.import_complete_f = Pending]

\* The handle with a slip: the future of the delete chained behind the
\* import is returned.
chain_handle_behind_delete(ch) ==
    IF ch.import_complete_f.st = "ok" THEN ch.delete_f ELSE ch.import_complete_f

\* The handle _upload_then_import returns: f_proxy(import_complete_f).
chain_handle(ch) == ch.import_complete_f

----------------------------------------------------------------------------
(* Construction: the validator of the distributors field *)

\* The most distributors a Repository is constructed with.
MaxCtorDists == 3

\* The repo_id values of the distributors a Repository is constructed with.
RepoIdPool == {None, PyStr(""), PyStr("repo1"), PyStr("repo2")}

\* Repository._check_repo_id(self, _, value), from the i-th distributor on:
\* None when the validator returns, the exception when it raises. Both
\* conditions of the loop body return from the validator, so no distributor
\* behind the i-th is looked at.
_check_repo_id_from(self_id, value, i) ==
    IF i > Len(value) THEN None
    ELSE LET distributor == value[i]
         IN IF ~Truthy(distributor.repo_id) THEN None
            ELSE IF distributor.repo_id = PyStr(self_id) THEN None
            ELSE PyStr("ValueError")

\* Repository._check_repo_id(self, _, value)
_check_repo_id(self_id, value) == _check_repo_id_from(self_id, value, 1)

\* Repository(id=id, distributors=distributors): the object, or the
\* exception its validator raised.
Repository(id, distributors) ==
    LET exc == _check_repo_id(id, distributors)
    IN IF exc # None THEN [py |-> "raise", exc |-> exc]
       ELSE [py |-> "Repository", id |-> id, distributors |-> distributors]

----------------------------------------------------------------------------
(* The fields of Repository and the mutable-notes payload *)

\* The fields of Repository, in the order of the class: the name, the Pulp
\* field it is stored under (a dotted path, as its segments; <<>> when the
\* field has none) and whether it is declared mutable.
Field(name, pulp_field, mutable) ==
    [name |-> name, pulp_field |-> pulp_field, mutable |-> mutable]

RepositoryFields ==
    << Field("id", <<"id">>, FALSE),
       Field("type", <<"notes", "_repo-type">>, FALSE),
       Field("created", <<"notes", "created">>, FALSE),
       Field("distributors", <<"distributors">>, FALSE),
       Field("eng_product_id", <<"notes", "eng_product">>, FALSE),
       Field("relative_url", <<>>, FALSE),
       Field("mutable_urls", <<>>, FALSE),
       Field("is_sigstore", <<>>, FALSE),
       Field("is_temporary", <<"notes", "pub_temp_repo">>, FALSE),
       Field("signing_keys", <<"notes", "signatures">>, FALSE),
       Field("skip_rsync_repodata", <<>>, FALSE),
       Field("content_set", <<"notes", "content_set">>, FALSE),
       Field("arch", <<"notes", "arch">>, FALSE),
       Field("platform_full_version", <<"notes", "platform_full_version">>, FALSE),
       Field("product_versions", <<"notes", "product_versions">>, TRUE),
       Field("include_in_download_service",
             <<"notes", "include_in_download_service">>, TRUE),
       Field("include_in_download_service_preview",
             <<"notes", "include_in_download_service_preview">>, TRUE) >>

ABSENT == [py |-> "ABSENT"]

\* pulp_field.startswith("notes.")
startswith_notes(pulp_field) == Len(pulp_field) >= 2 /\ pulp_field[1] = "notes"

\* _mutable_note_fields with a slip: every field under the notes dict, mutable
\* or not.
_mutable_note_fields_all_notes ==
    SelectSeq(RepositoryFields, LAMBDA fld : startswith_notes(fld.pulp_field))

\* Repository._mutable_note_fields(): the fields stored under the notes dict
\* and declared mutable.
_mutable_note_fields ==
    SelectSeq(RepositoryFields,
           LAMBDA fld : startswith_notes(fld.pulp_field) /\ fld.mutable)

\* A raw Pulp dict is modelled by its leaves: a function from paths to values.
\* lookup(data, pulp_field): the value at the path, ABSENT when there is none.
lookup(data, pulp_field) ==
    IF pulp_field \in DOMAIN data THEN data[pulp_field] ELSE ABSENT

\* dict_put(out, pulp_field, pulp_value)
dict_put(out, pulp_field, pulp_value) ==
    [p \in DOMAIN out \cup {pulp_field} |->
        IF p = pulp_field THEN pulp_value ELSE out[p]]

\* The loop of _mutable_notes over the fields from the i-th on.
RECURSIVE _mutable_notes_from(_, _, _, _)
_mutable_notes_from(self_raw, fields, i, out) ==
    IF i > Len(fields) THEN out
    ELSE LET pulp_field == fields[i].pulp_field
             pulp_value == lookup(self_raw, pulp_field)
         IN _mutable_notes_from(self_raw, fields, i + 1,
                IF pulp_value # ABSENT THEN dict_put(out, pulp_field, pulp_value)
                ELSE out)

\* out.get("notes") or {}: the dict under the key notes, by its keys.
get_notes(out) ==
    [k \in {p[2] : p \in {q \in DOMAIN out : startswith_notes(q)}} |->
        out[<<"notes", k>>]]

\* Repository._mutable_notes, given self._to_data()
_mutable_notes(self_raw) ==
    get_notes(_mutable_notes_from(self_raw, _mutable_note_fields, 1, <<>>))

\* json.dumps(items, separators=(",", ":")) of a list of strings, from the
\* i-th item on.
RECURSIVE json_items(_, _)
json_items(items, i) ==
    IF i > Len(items) THEN ""
    ELSE (IF i > 1 THEN "," ELSE "") \o "\"" \o items[i] \o "\"" \o json_items(items, i + 1)

json_dumps(list) == PyStr("[" \o json_items(list.items, 1) \o "]")

\* ",".join(items), from the i-th item on
RECURSIVE join_items(_, _)
join_items(items, i) ==
    IF i > Len(items) THEN ""
    ELSE (IF i > 1 THEN "," ELSE "") \o items[i] \o join_items(items, i + 1)

\* str(value) of a bool
str(value) == PyStr(IF value = True THEN "True" ELSE "False")

\* The py_pulp_converter of a field, applied to a value that is not None.
py_pulp_converter(name, value) ==
    IF value = None THEN None
    ELSE CASE name = "product_versions" -> json_dumps(value)
           [] name \in {"include_in_download_service",
                        "include_in_download_service_preview"} -> str(value)
           [] name = "signing_keys" -> PyStr(join_items(value.items, 1))
           [] OTHER -> value

\* self._to_data(): the object in raw Pulp form, a value under the Pulp field
\* of each field that has one. skipped are the fields the encoding leaves out.
_to_data(self, skipped) ==
    LET stored == {i \in 1..Len(RepositoryFields) :
                      /\ RepositoryFields[i].pulp_field # <<>>
                      /\ RepositoryFields[i].name \notin skipped}
    IN [p \in {RepositoryFields[i].pulp_field : i \in stored} |->
           LET fld == RepositoryFields[CHOOSE i \in stored :
                                           RepositoryFields[i].pulp_field = p]
           IN py_pulp_converter(fld.name, self[fld.name])]

\* The values of the fields of the repositories whose notes are encoded.
RepositoryValues ==
    { [id |-> PyStr("repo1"), type |-> type, created |-> None,
       distributors |-> PyList(<<>>), eng_product_id |-> None,
       is_temporary |-> False, signing_keys |-> PyList(<<"fd431d51", "f21541eb">>),
       content_set |-> None,
       arch |-> arch, platform_full_version |-> None,
       product_versions |-> pv, include_in_download_service |-> ds,
       include_in_download_service_preview |-> dsp] :
         type \in {None, PyStr("rpm-repo")}, arch \in {None, PyStr("x86_64")},
         pv \in {None, PyList(<<>>), PyList(<<"8.8", "8.10">>)},
         ds \in {True, False}, dsp \in {True, False} }

\* The fields an encoding of the model may leave out.
SkippablePool ==
    {"type", "arch", "product_versions", "include_in_download_service",
     "include_in_download_service_preview"}

----------------------------------------------------------------------------
(* The state machine of the repository's operations *)

NoCall == [op |-> "none", args |-> <<>>, raised |-> None, issued |-> <<>>,
           request |-> NoFuture, handle |-> "none", result |-> None]
IdleCtor == [st |-> "idle"]
IdleLocks == [st |-> "idle"]
IdlePv == [st |-> "idle"]
IdleDecode == [st |-> "idle"]
IdleNotes == [st |-> "idle"]

\* The repository the operations and the chains run on.
TheRepo == Repository("repo1", <<>>)

Init ==
    /\ decode = IdleDecode
    /\ repo \in {Repository("repo1", ds) : ds \in SeqsUpTo(DistributorPool, MaxDists)}
    /\ repo.py = "Repository"
    /\ client = None
    /\ dclient = [i \in 1..Len(repo.distributors) |-> None]
    /\ last = NoCall
    /\ chains = [c \in Chains |-> IdleChain]
    /\ ctor = IdleCtor
    /\ notes = IdleNotes
    /\ locks = IdleLocks
    /\ pvcall = IdlePv

\* _set_client without its loop: the repository alone gets the client.
_set_client_repository_only(cl) ==
    /\ client' = cl
    /\ UNCHANGED <<repo, dclient, last, chains, ctor, notes, locks, pvcall, decode>>

\* Repository._set_client(client): the repository and each of its
\* distributors get the client.
_set_client(cl) ==
    /\ client' = cl
    /\ dclient' = [i \in 1..Len(repo.distributors) |-> cl]
    /\ UNCHANGED <<repo, last, chains, ctor, notes, locks, pvcall, decode>>

SetClient == \E cl \in {None, TheClient} : _set_client(cl)

SearchContent ==
    /\ last = NoCall
    /\ \E criteria \in CriteriaPool : last' = search_content(repo, client, criteria)
    /\ UNCHANGED <<repo, client, dclient, chains, ctor, notes, locks, pvcall, decode>>

Publish ==
    /\ last = NoCall
    /\ \E options \in PublishOptionsPool, hook_rets \in SeqsUpTo(HookReturnPool, MaxHooks) :
           last' = publish(repo, client, options, hook_rets)
    /\ UNCHANGED <<repo, client, dclient, chains, ctor, notes, locks, pvcall, decode>>

\* The publish request succeeds with its tasks: do_published_hook runs.
Published ==
    /\ last.op = "publish"
    /\ last.handle = "pending"
    /\ \E tasks \in TasksPool :
           last' = do_published_hook(repo, [last EXCEPT !.request = Resolved(tasks)], tasks)
    /\ UNCHANGED <<repo, client, dclient, chains, ctor, notes, locks, pvcall, decode>>

Sync ==
    /\ last = NoCall
    /\ \E options \in SyncOptionsPool : last' = sync(repo, client, options)
    /\ UNCHANGED <<repo, client, dclient, chains, ctor, notes, locks, pvcall, decode>>

RemoveContent ==
    /\ last = NoCall
    /\ \E criteria \in CriteriaPool, type_ids \in TypeIdsPool :
           last' = remove_content(repo, client, criteria, type_ids)
    /\ UNCHANGED <<repo, client, dclient, chains, ctor, notes, locks, pvcall, decode>>

\* The request of a search, sync or remove_content succeeds: its handle, a
\* proxy of the request's future, resolves with the result.
RequestDone ==
    /\ last.op \in {"search_content", "sync", "remove_content"}
    /\ last.handle = "pending"
    /\ \E tasks \in TasksPool :
           last' = [last EXCEPT !.request = Resolved(tasks), !.handle = "resolved",
                                !.result = tasks]
    /\ UNCHANGED <<repo, client, dclient, chains, ctor, notes, locks, pvcall, decode>>

\* The request of the last call fails: f_map and f_proxy hand the exception on
\* to the handle, and no callback runs.
RequestFailed ==
    /\ last.handle = "pending"
    /\ last' = request_failed(last, PyStr("TaskFailedException"))
    /\ UNCHANGED <<repo, client, dclient, chains, ctor, notes, locks, pvcall, decode>>

\* The caller is done with the last call, its exception or its resolved
\* handle, and turns to its next call.
CallerDone ==
    /\ last # NoCall
    /\ last.handle # "pending"
    /\ last' = NoCall
    /\ UNCHANGED <<repo, client, dclient, chains, ctor, notes, locks, pvcall, decode>>

Next ==
    \/ SetClient
    \/ SearchContent
    \/ Publish
    \/ Published
    \/ Sync
    \/ RemoveContent
    \/ RequestDone
    \/ RequestFailed
    \/ CallerDone

Spec == Init /\ [][Next]_vars

----------------------------------------------------------------------------
(* The state machine of the upload-then-import chains *)

\* What a caller of the model passes as file_obj, unit_key_fn and
\* unit_metadata_fn.
FileObjPool == {None, PyStr("file.rpm")}
UnitFnPool == {[key |-> None, meta |-> None],
               [key |-> PyStr("unit_key_fn"), meta |-> PyStr("unit_metadata_fn")]}

\* What _do_upload_file resolves with: a (size, checksum) tuple.
UploadResult == [py |-> "tuple", size |-> 1024, checksum |-> "abcd"]

InitUpload ==
    /\ decode = IdleDecode
    /\ repo = TheRepo
    /\ client \in {None, TheClient}
    /\ dclient = <<>>
    /\ last = NoCall
    /\ chains = [c \in Chains |-> IdleChain]
    /\ ctor = IdleCtor
    /\ notes = IdleNotes
    /\ locks = IdleLocks
    /\ pvcall = IdlePv

\* A chain is started.
UploadThenImport(c) ==
    /\ chains[c].st = "idle"
    /\ \E file_obj \in FileObjPool, fns \in UnitFnPool :
           chains' = [chains EXCEPT
                         ![c] = _upload_then_import(repo, client, file_obj, fns.key, fns.meta)]
    /\ UNCHANGED <<repo, client, dclient, last, ctor, notes, locks, pvcall, decode>>

\* The upload request resolves with an upload: upload_id_f gets its
\* upload_id and the callbacks on it run.
RequestUploadDone(c) ==
    /\ chains[c].request_f.st = "pending"
    /\ \E id \in UploadIdPool :
           LET upload == [py |-> "dict", upload_id |-> PyStr(id)]
           IN chains' = [chains EXCEPT
                            ![c] = on_upload_id(repo,
                                       [chains[c] EXCEPT !.request_f = Resolved(upload)],
                                       upload.upload_id)]
    /\ UNCHANGED <<repo, client, dclient, last, ctor, notes, locks, pvcall, decode>>

RequestUploadFailed(c) ==
    /\ chains[c].request_f.st = "pending"
    /\ LET exc == PyStr("PulpException: request_upload")
       IN chains' = [chains EXCEPT
                        ![c] = chain_failed([chains[c] EXCEPT !.request_f = Failed(exc)], exc)]
    /\ UNCHANGED <<repo, client, dclient, last, ctor, notes, locks, pvcall, decode>>

\* The upload of the bytes resolves: upload_complete_f follows it and the
\* callback on it runs.
UploadFileDone(c) ==
    /\ chains[c].do_upload_f.st = "pending"
    /\ chains' = [chains EXCEPT
                     ![c] = on_upload_complete(repo,
                                [chains[c] EXCEPT !.do_upload_f = Resolved(UploadResult)],
                                UploadResult)]
    /\ UNCHANGED <<repo, client, dclient, last, ctor, notes, locks, pvcall, decode>>

UploadFileFailed(c) ==
    /\ chains[c].do_upload_f.st = "pending"
    /\ LET exc == PyStr("PulpException: upload")
       IN chains' = [chains EXCEPT
                        ![c] = chain_failed([chains[c] EXCEPT !.do_upload_f = Failed(exc)], exc)]
    /\ UNCHANGED <<repo, client, dclient, last, ctor, notes, locks, pvcall, decode>>

\* The import resolves with its tasks: import_complete_f follows it and the
\* callback on it runs.
ImportDone(c) ==
    /\ chains[c].do_import_f.st = "pending"
    /\ \E tasks \in TasksPool :
           chains' = [chains EXCEPT
                         ![c] = on_import_complete(repo,
                                    [chains[c] EXCEPT !.do_import_f = Resolved(tasks),
                                                      !.import_complete_f = Resolved(tasks)])]
    /\ UNCHANGED <<repo, client, dclient, last, ctor, notes, locks, pvcall, decode>>

ImportFailed(c) ==
    /\ chains[c].do_import_f.st = "pending"
    /\ LET exc == PyStr("TaskFailedException: import")
       IN chains' = [chains EXCEPT
                        ![c] = chain_failed([chains[c] EXCEPT !.do_import_f = Failed(exc)], exc)]
    /\ UNCHANGED <<repo, client, dclient, last, ctor, notes, locks, pvcall, decode>>

\* The delete of the upload request resolves, or fails.
DeleteDone(c) ==
    /\ chains[c].delete_f.st = "pending"
    /\ chains' = [chains EXCEPT ![c].delete_f = Resolved(None)]
    /\ UNCHANGED <<repo, client, dclient, last, ctor, notes, locks, pvcall, decode>>

DeleteFailed(c) ==
    /\ chains[c].delete_f.st = "pending"
    /\ chains' = [chains EXCEPT ![c].delete_f = Failed(PyStr("PulpException: delete"))]
    /\ UNCHANGED <<repo, client, dclient, last, ctor, notes, locks, pvcall, decode>>

NextUpload ==
    \E c \in Chains :
        \/ UploadThenImport(c)
        \/ RequestUploadDone(c)
        \/ RequestUploadFailed(c)
        \/ UploadFileDone(c)
        \/ UploadFileFailed(c)
        \/ ImportDone(c)
        \/ ImportFailed(c)
        \/ DeleteDone(c)
        \/ DeleteFailed(c)

SpecUpload == InitUpload /\ [][NextUpload]_vars

----------------------------------------------------------------------------
(* One caller making its calls on the repository one after the other: the  *)
(* four operations and the upload-then-import chain.                       *)

\* The caller is done with a chain, which raised or whose handle is done,
\* and turns to its next call.
UploadCallerDone ==
    /\ chains[1].st # "idle"
    /\ chains[1].raised # None \/ IsDone(chain_handle(chains[1]))
    /\ chains' = [chains EXCEPT ![1] = IdleChain]
    /\ UNCHANGED <<repo, client, dclient, last, ctor, notes, locks, pvcall, decode>>

NextCalls ==
    \/ chains[1].st = "idle" /\ Next
    \/ last = NoCall /\ UploadThenImport(1)
    \/ RequestUploadDone(1)
    \/ RequestUploadFailed(1)
    \/ UploadFileDone(1)
    \/ UploadFileFailed(1)
    \/ ImportDone(1)
    \/ ImportFailed(1)
    \/ DeleteDone(1)
    \/ DeleteFailed(1)
    \/ UploadCallerDone

SpecCalls == Init /\ [][NextCalls]_vars

----------------------------------------------------------------------------
(* Constructions, and encodings of the mutable notes *)

\* The distributors a Repository is constructed with.
CtorDistributorPool == {Distributor("yum_distributor", FALSE, r) : r \in RepoIdPool}

InitCtor ==
    /\ decode = IdleDecode
    /\ repo = TheRepo
    /\ client = None
    /\ dclient = <<>>
    /\ last = NoCall
    /\ chains = [c \in Chains |-> IdleChain]
    /\ ctor \in {[st |-> "args", id |-> "repo1", distributors |-> ds] :
                    ds \in SeqsUpTo(CtorDistributorPool, MaxCtorDists)}
    /\ notes = IdleNotes
    /\ locks = IdleLocks
    /\ pvcall = IdlePv

\* Repository(id=..., distributors=...) is called.
Construct ==
    /\ ctor.st = "args"
    /\ ctor' = [ctor EXCEPT !.st = "done"] @@
               [out |-> Repository(ctor.id, ctor.distributors)]
    /\ UNCHANGED <<repo, client, dclient, last, chains, notes, locks, pvcall, decode>>

NextCtor == Construct

SpecCtor == InitCtor /\ [][NextCtor]_vars

InitNotes ==
    /\ decode = IdleDecode
    /\ repo = TheRepo
    /\ client = None
    /\ dclient = <<>>
    /\ last = NoCall
    /\ chains = [c \in Chains |-> IdleChain]
    /\ ctor = IdleCtor
    /\ locks = IdleLocks
    /\ pvcall = IdlePv
    /\ notes \in {[st |-> "repo", self |-> v, skipped |-> sk] :
                     v \in RepositoryValues, sk \in SUBSET SkippablePool}

\* repository._mutable_notes is read.
MutableNotes ==
    /\ notes.st = "repo"
    /\ LET self_raw == _to_data(notes.self, notes.skipped)
       IN notes' = [notes EXCEPT !.st = "done"] @@
                   [self_raw |-> self_raw, out |-> _mutable_notes(self_raw)]
    /\ UNCHANGED <<repo, client, dclient, last, chains, ctor, locks, pvcall, decode>>

NextNotes == MutableNotes

SpecNotes == InitNotes /\ [][NextNotes]_vars

----------------------------------------------------------------------------
(* pv_converter. The str of a version is kept as the sequence of its       *)
(* characters, so that split, int and the order of strs do what Python's   *)
(* do on them.                                                             *)

\* A Python str given by its characters, and a Python int.
VStr(chars) == [py |-> "str", chars |-> chars]
VInt(n) == [py |-> "int", n |-> n]

DigitChars == << "0", "1", "2", "3", "4", "5", "6", "7", "8", "9" >>
IsDigit(c) == \E d \in 1..Len(DigitChars) : DigitChars[d] = c
DigitValue(c) == (CHOOSE d \in 1..Len(DigitChars) : DigitChars[d] = c) - 1

\* ord(c), for the characters of the model's versions
ord(c) ==
    CASE c = "+" -> 43
      [] c = "-" -> 45
      [] c = "." -> 46
      [] IsDigit(c) -> 48 + DigitValue(c)
      [] c = "a" -> 97
      [] c = "b" -> 98
      [] c = "c" -> 99

\* The decimal digits of a natural number
RECURSIVE decimal(_)
decimal(n) ==
    IF n < 10 THEN << DigitChars[n + 1] >>
    ELSE decimal(n \div 10) \o << DigitChars[(n % 10) + 1] >>

\* str(v) of a str or of an int that is not negative
str_version(v) == IF v.py = "str" THEN v ELSE VStr(decimal(v.n))

\* chars.split("."), from the i-th character on; cur is the component read so
\* far
RECURSIVE split_from(_, _, _)
split_from(chars, i, cur) ==
    IF i > Len(chars) THEN << cur >>
    ELSE IF chars[i] = "." THEN << cur >> \o split_from(chars, i + 1, <<>>)
    ELSE split_from(chars, i + 1, Append(cur, chars[i]))

split(chars) == split_from(chars, 1, <<>>)

\* The digits of int(c)'s argument, behind its sign if it has one
digits_of(c) == IF Len(c) > 0 /\ c[1] \in {"+", "-"} THEN Tail(c) ELSE c

\* int(c) raises ValueError: c is not an optional sign and one digit or more
int_raises(c) ==
    \/ digits_of(c) = <<>>
    \/ \E i \in 1..Len(digits_of(c)) : ~IsDigit(digits_of(c)[i])

\* The number the digits ds write, read up to the i-th
RECURSIVE digits_value(_, _)
digits_value(ds, i) ==
    IF i = 0 THEN 0 ELSE 10 * digits_value(ds, i - 1) + DigitValue(ds[i])

\* int(c), where it does not raise
int(c) ==
    LET n == digits_value(digits_of(c), Len(digits_of(c)))
    IN IF c[1] = "-" THEN 0 - n ELSE n

\* The key of the first sort: [int(c) for c in str(version).split(".")]
version_key(version) ==
    [i \in 1..Len(split(version.chars)) |-> int(split(version.chars)[i])]

\* The key of a version can be computed: no component raises ValueError.
key_raises(version) ==
    \E i \in 1..Len(split(version.chars)) : int_raises(split(version.chars)[i])

\* a < b for two lists of ints, as Python compares lists: by the first place
\* where they differ, and a proper prefix is the smaller.
list_lt(a, b) ==
    LET n == IF Len(a) < Len(b) THEN Len(a) ELSE Len(b)
        diff == {i \in 1..n : a[i] # b[i]}
    IN IF diff = {} THEN Len(a) < Len(b)
       ELSE LET i == CHOOSE k \in diff : \A j \in diff : k <= j
            IN a[i] < b[i]

\* a < b for two strs: their characters compared by code point
str_lt(a, b) ==
    list_lt([i \in 1..Len(a.chars) |-> ord(a.chars[i])],
            [i \in 1..Len(b.chars) |-> ord(b.chars[i])])

\* x < y in the order of a sort: by key, or of the strs themselves
sort_lt(x, y, by_key) ==
    IF by_key THEN list_lt(version_key(x), version_key(y)) ELSE str_lt(x, y)

\* sorted is stable: x goes into the sorted items behind those that are not
\* greater than it.
insert(items, x, by_key) ==
    LET k == Cardinality({i \in 1..Len(items) : ~sort_lt(x, items[i], by_key)})
    IN SubSeq(items, 1, k) \o << x >> \o SubSeq(items, k + 1, Len(items))

RECURSIVE sorted_from(_, _, _, _)
sorted_from(versions, i, items, by_key) ==
    IF i > Len(versions) THEN items
    ELSE sorted_from(versions, i + 1, insert(items, versions[i], by_key), by_key)

\* sorted(versions, key=...) and sorted(versions)
sorted(versions, by_key) == sorted_from(versions, 1, <<>>, by_key)

\* pv_converter that always sorts the strs themselves.
pv_converter_str_order(versions) ==
    sorted([i \in 1..Len(versions) |-> str_version(versions[i])], FALSE)

\* pv_converter(versions)
pv_converter(versions) ==
    LET strs == [i \in 1..Len(versions) |-> str_version(versions[i])]
    IN IF \E i \in 1..Len(strs) : key_raises(strs[i])
       THEN sorted(strs, FALSE)
       ELSE sorted(strs, TRUE)

\* The versions a caller of the model passes: strs, and an int.
VersionPool ==
    { VStr(<< "8", ".", "8" >>),
      VStr(<< "8", ".", "1", "0" >>),
      VStr(<< "8" >>),
      VStr(<< "0", "8" >>),
      VStr(<< "1", "0" >>),
      VStr(<< "8", ".", "-", "1" >>),
      VStr(<< "8", "." >>),
      VStr(<< "a", "b", "c" >>),
      VInt(9) }

MaxVersions == 3

InitPv ==
    /\ decode = IdleDecode
    /\ repo = TheRepo
    /\ client = None
    /\ dclient = <<>>
    /\ last = NoCall
    /\ chains = [c \in Chains |-> IdleChain]
    /\ ctor = IdleCtor
    /\ notes = IdleNotes
    /\ locks = IdleLocks
    /\ pvcall \in {[st |-> "args", versions |-> versions] :
                      versions \in SeqsUpTo(VersionPool, MaxVersions)}

PvConverter ==
    /\ pvcall.st = "args"
    /\ pvcall' = [st |-> "done", versions |-> pvcall.versions,
                  result |-> pv_converter(pvcall.versions)]
    /\ UNCHANGED <<repo, client, dclient, last, chains, ctor, notes, locks, decode>>

NextPv == PvConverter

SpecPv == InitPv /\ [][NextPv]_vars

----------------------------------------------------------------------------
(* The lock of a repository. Repository.lock makes a RepoLock; what        *)
(* entering and leaving it do is the lock protocol of the specification    *)
(* (4.5): a record of the holder on the server, which an acquire reads and *)
(* writes, a release clears, and a later acquire supersedes once expired.  *)

NumLockClients == 2
MaxTime == 3

LockClients == 1..NumLockClients

\* The Client of the c-th process using the lock.
LockClient(c) == [py |-> "Client", name |-> c]

\* The durations a caller of the model passes to lock: none, or one second.
DurationPool == {None, VInt(1)}

\* Repository.lock(context, duration)
lock(self, cl, context, duration) ==
    [py |-> "RepoLock", repo_id |-> self.id, client |-> cl, context |-> context,
     duration |-> duration]

\* The record of a lock on the server: the holder, the time of acquisition
\* and the duration, from which its expiry.
LockRecord(holder, acquired, duration) ==
    [py |-> "lock", holder |-> holder, acquired |-> acquired, duration |-> duration]

\* A lock record is expired: now > acquired_time + its duration. Without a
\* duration it never is.
Expired(record, now) ==
    record.duration # None /\ now > record.acquired + record.duration.n

\* An acquire that takes no notice of the lock there is.
acquire_over_held(lk, record, now) ==
    [record |-> LockRecord(lk.client, now, lk.duration), outcome |-> "acquired"]

\* acquire at time now against the record of the server: the record left
\* and the outcome. On an expired record the caller may go on to supersede.
acquire(lk, record, now) ==
    IF record = None
    THEN [record |-> LockRecord(lk.client, now, lk.duration), outcome |-> "acquired"]
    ELSE IF ~Expired(record, now)
    THEN [record |-> record, outcome |-> "LockedError"]
    ELSE [record |-> record, outcome |-> "expired"]

\* The caller that found an expired record supersedes it by its own.
supersede(lk, now) == LockRecord(lk.client, now, lk.duration)

\* release: the record is cleared only if its holder is the one releasing.
release(lk, record) ==
    IF record # None /\ record.holder = lk.client THEN None ELSE record

\* No process has a lock object, the server has no record, time is 0.
NoLocks ==
    [now |-> 0, record |-> None,
     st |-> [c \in LockClients |-> "idle"],
     lk |-> [c \in LockClients |-> None],
     held |-> [c \in LockClients |-> None]]

InitLock ==
    /\ decode = IdleDecode
    /\ repo = TheRepo
    /\ client = None
    /\ dclient = <<>>
    /\ last = NoCall
    /\ chains = [c \in Chains |-> IdleChain]
    /\ ctor = IdleCtor
    /\ notes = IdleNotes
    /\ pvcall = IdlePv
    /\ locks = NoLocks

\* Process c calls repository.lock(context, duration) on its Repository.
Lock(c) ==
    /\ locks.st[c] = "idle"
    /\ \E duration \in DurationPool :
           locks' = [locks EXCEPT
                        !.st[c] = "made",
                        !.lk[c] = lock(repo, LockClient(c), PyStr("context"), duration)]
    /\ UNCHANGED <<repo, client, dclient, last, chains, ctor, notes, pvcall, decode>>

\* Process c enters its lock: acquire.
Acquire(c) ==
    /\ locks.st[c] = "made"
    /\ LET got == acquire(locks.lk[c], locks.record, locks.now)
       IN locks' = [locks EXCEPT
                       !.record = got.record,
                       !.st[c] = CASE got.outcome = "acquired" -> "holding"
                                   [] got.outcome = "LockedError" -> "locked"
                                   [] got.outcome = "expired" -> "superseding",
                       !.held[c] = IF got.outcome = "acquired" THEN got.record ELSE None]
    /\ UNCHANGED <<repo, client, dclient, last, chains, ctor, notes, pvcall, decode>>

\* Process c, which found the record expired, supersedes it.
Supersede(c) ==
    /\ locks.st[c] = "superseding"
    /\ locks' = [locks EXCEPT
                    !.record = supersede(locks.lk[c], locks.now),
                    !.st[c] = "holding",
                    !.held[c] = supersede(locks.lk[c], locks.now)]
    /\ UNCHANGED <<repo, client, dclient, last, chains, ctor, notes, pvcall, decode>>

\* Process c leaves its lock: release.
Release(c) ==
    /\ locks.st[c] = "holding"
    /\ locks' = [locks EXCEPT
                    !.record = release(locks.lk[c], locks.record),
                    !.st[c] = "idle",
                    !.lk[c] = None,
                    !.held[c] = None]
    /\ UNCHANGED <<repo, client, dclient, last, chains, ctor, notes, pvcall, decode>>

\* Process c, whose acquire raised LockedError, is done with its lock object.
Locked(c) ==
    /\ locks.st[c] = "locked"
    /\ locks' = [locks EXCEPT !.st[c] = "idle", !.lk[c] = None]
    /\ UNCHANGED <<repo, client, dclient, last, chains, ctor, notes, pvcall, decode>>

\* Process c dies holding the lock, without a release; another process takes
\* its place.
Killed(c) ==
    /\ locks.st[c] = "holding"
    /\ locks' = [locks EXCEPT !.st[c] = "idle", !.lk[c] = None, !.held[c] = None]
    /\ UNCHANGED <<repo, client, dclient, last, chains, ctor, notes, pvcall, decode>>

\* A second passes.
Tick ==
    /\ locks.now < MaxTime
    /\ locks' = [locks EXCEPT !.now = locks.now + 1]
    /\ UNCHANGED <<repo, client, dclient, last, chains, ctor, notes, pvcall, decode>>

NextLock ==
    \/ \E c \in LockClients : Lock(c)
    \/ \E c \in LockClients : Acquire(c)
    \/ \E c \in LockClients : Supersede(c)
    \/ \E c \in LockClients : Release(c)
    \/ \E c \in LockClients : Locked(c)
    \/ \E c \in LockClients : Killed(c)
    \/ Tick

SpecLock == InitLock /\ [][NextLock]_vars

----------------------------------------------------------------------------
(* Decoding: Repository.from_data and Repository._data_to_init_args. A     *)
(* dict of the raw data is a record of the keys that are read from it; a   *)
(* key the dict does not have holds ABSENT.                                *)

\* d.get(key), where value is what the record of d holds for key
dict_get(value) == IF value = ABSENT THEN None ELSE value

\* The notes dict of the data, by its "_repo-type"
NotesDict(repo_type_value) == [py |-> "dict", repo_type |-> repo_type_value]

\* The config dict of a distributor in the data
ConfigDict(relative_url, skip_repodata) ==
    [py |-> "dict", relative_url |-> relative_url, skip_repodata |-> skip_repodata]

\* A distributor in the data
DistData(id, distributor_type_id, config) ==
    [py |-> "dict", id |-> id, distributor_type_id |-> distributor_type_id,
     config |-> config]

\* The raw data of a repository
RepoData(notes_value, distributors) ==
    [py |-> "dict", notes |-> notes_value, distributors |-> distributors]

\* repo_type(pulp_type)(klass): REPO_CLASSES[pulp_type] = klass
repo_type(REPO_CLASSES, pulp_type, klass) ==
    [t \in DOMAIN REPO_CLASSES \cup {pulp_type} |->
        IF t = pulp_type THEN klass ELSE REPO_CLASSES[t]]

\* from_data that never looks for a subclass.
from_data_no_dispatch(cls, data, REPO_CLASSES) ==
    [calls |-> << cls >>, decoded |-> cls]

\* cls.from_data(data), for Repository and the classes that inherit it: the
\* classes from_data was called on, in order, and the class that the data
\* is decoded as, the one super().from_data is reached with.
RECURSIVE from_data(_, _, _)
from_data(cls, data, REPO_CLASSES) ==
    LET got == dict_get(data.notes)
        notes_dict == IF Truthy(got) THEN got ELSE NotesDict(ABSENT)
        value == dict_get(notes_dict.repo_type)
        matching == {notes_type \in DOMAIN REPO_CLASSES : value = PyStr(notes_type)}
    IN IF cls = "Repository" /\ matching # {}
       THEN LET klass == REPO_CLASSES[CHOOSE notes_type \in matching : TRUE]
                sub == from_data(klass, data, REPO_CLASSES)
            IN [calls |-> << cls >> \o sub.calls, decoded |-> sub.decoded]
       ELSE [calls |-> << cls >>, decoded |-> cls]

\* out[key] = value
setitem(out_dict, key, value) ==
    [k \in DOMAIN out_dict \cup {key} |-> IF k = key THEN value ELSE out_dict[k]]

\* The loop of _data_to_init_args in which relative_url, once set, is kept.
RECURSIVE _data_to_init_args_first_kept(_, _, _)
_data_to_init_args_first_kept(dists, i, out_dict) ==
    IF i > Len(dists) THEN out_dict
    ELSE LET dist == dists[i]
             got == dict_get(dist.config)
             config == IF Truthy(got) THEN got ELSE ConfigDict(ABSENT, ABSENT)
             out1 == IF /\ dist.distributor_type_id \in {"yum_distributor", "iso_distributor"}
                        /\ "relative_url" \notin DOMAIN out_dict
                     THEN setitem(out_dict, "relative_url", dict_get(config.relative_url))
                     ELSE out_dict
             skip_repodata == dict_get(config.skip_repodata)
             out2 == IF dist.id = "cdn_distributor" /\ skip_repodata # None
                     THEN setitem(out1, "skip_rsync_repodata", skip_repodata)
                     ELSE out1
         IN _data_to_init_args_first_kept(dists, i + 1, out2)

\* The loop of _data_to_init_args over the distributors from the i-th on.
RECURSIVE _data_to_init_args_from(_, _, _)
_data_to_init_args_from(dists, i, out_dict) ==
    IF i > Len(dists) THEN out_dict
    ELSE LET dist == dists[i]
             got == dict_get(dist.config)
             config == IF Truthy(got) THEN got ELSE ConfigDict(ABSENT, ABSENT)
             out1 == IF dist.distributor_type_id \in {"yum_distributor", "iso_distributor"}
                     THEN setitem(out_dict, "relative_url", dict_get(config.relative_url))
                     ELSE out_dict
             skip_repodata == dict_get(config.skip_repodata)
             out2 == IF dist.id = "cdn_distributor" /\ skip_repodata # None
                     THEN setitem(out1, "skip_rsync_repodata", skip_repodata)
                     ELSE out1
         IN _data_to_init_args_from(dists, i + 1, out2)

\* Repository._data_to_init_args(data), as far as relative_url and
\* skip_rsync_repodata go: neither has a Pulp field, so what the base class
\* gives has neither.
_data_to_init_args(data) ==
    LET got == dict_get(data.distributors)
        dists == IF Truthy(got) THEN got.items ELSE <<>>
    IN _data_to_init_args_from(dists, 1, <<>>)

\* The value a field gets from the init args: the one given, or the default
\* of the field.
init_field(init_args, name, default) ==
    IF name \in DOMAIN init_args THEN init_args[name] ELSE default

\* The object decoded from the init args: its class, its relative_url
\* (default None) and its skip_rsync_repodata (default False).
decoded_object(cls, init_args) ==
    [py |-> cls,
     relative_url |-> init_field(init_args, "relative_url", None),
     skip_rsync_repodata |-> init_field(init_args, "skip_rsync_repodata", False)]

\* The classes from_data is called on; the subclasses that register, each
\* with its "_repo-type".
ClassPool == {"Repository", "YumRepository", "FileRepository"}
RegistrationPool == { << "rpm-repo", "YumRepository" >>, << "iso-repo", "FileRepository" >> }

\* The notes of the data: no notes, null, and dicts without a type, with a
\* null one, with the two types that may be registered and with another.
NotesPool ==
    { ABSENT, None, NotesDict(ABSENT), NotesDict(None), NotesDict(PyStr("rpm-repo")),
      NotesDict(PyStr("iso-repo")), NotesDict(PyStr("docker-repo")) }

\* The distributors of the data.
DataDistPool ==
    { DistData("yum_distributor", "yum_distributor",
               ConfigDict(PyStr("content/a"), ABSENT)),
      DistData("iso_distributor", "iso_distributor",
               ConfigDict(PyStr("content/b"), ABSENT)),
      DistData("yum_distributor", "yum_distributor", ConfigDict(ABSENT, ABSENT)),
      DistData("yum_distributor", "yum_distributor", None),
      DistData("iso_distributor", "iso_distributor", ABSENT),
      DistData("cdn_distributor", "rpm_rsync_distributor", ConfigDict(ABSENT, True)),
      DistData("cdn_distributor", "rpm_rsync_distributor", ConfigDict(ABSENT, False)),
      DistData("cdn_distributor", "rpm_rsync_distributor", ConfigDict(ABSENT, None)),
      DistData("rsync_other", "rpm_rsync_distributor",
               ConfigDict(PyStr("content/z"), True)) }

MaxDataDists == 2

DataDistributorsPool ==
    {ABSENT, None} \cup {PyList(ds) : ds \in SeqsUpTo(DataDistPool, MaxDataDists)}

InitDecode ==
    /\ repo = TheRepo
    /\ client = None
    /\ dclient = <<>>
    /\ last = NoCall
    /\ chains = [c \in Chains |-> IdleChain]
    /\ ctor = IdleCtor
    /\ notes = IdleNotes
    /\ locks = IdleLocks
    /\ pvcall = IdlePv
    /\ decode \in {[st |-> "data", REPO_CLASSES |-> <<>>, cls |-> cls,
                      data |-> RepoData(n, ds)] :
                        cls \in ClassPool, n \in NotesPool, ds \in DataDistributorsPool}

\* A subclass is defined under the repo_type decorator.
RepoType ==
    /\ decode.st = "data"
    /\ \E reg \in RegistrationPool :
           /\ reg[1] \notin DOMAIN decode.REPO_CLASSES
           /\ decode' = [decode EXCEPT
                             !.REPO_CLASSES = repo_type(decode.REPO_CLASSES, reg[1], reg[2])]
    /\ UNCHANGED <<repo, client, dclient, last, chains, ctor, notes, locks, pvcall>>

\* cls.from_data(data) is called: the class is settled, and the object is
\* made of the init args of the data.
FromData ==
    /\ decode.st = "data"
    /\ LET got == from_data(decode.cls, decode.data, decode.REPO_CLASSES)
       IN decode' = [st |-> "done", REPO_CLASSES |-> decode.REPO_CLASSES,
                     cls |-> decode.cls, data |-> decode.data,
                     calls |-> got.calls,
                     init_args |-> _data_to_init_args(decode.data),
                     object |-> decoded_object(got.decoded,
                                               _data_to_init_args(decode.data))]
    /\ UNCHANGED <<repo, client, dclient, last, chains, ctor, notes, locks, pvcall>>

NextDecode == RepoType \/ FromData

SpecDecode == InitDecode /\ [][NextDecode]_vars

----------------------------------------------------------------------------
(* The claims *)

\* The allow-list of publish, in its order, as the specification states it.
AllowList ==
    << "iso_distributor", "yum_distributor", "cdn_distributor",
       "cdn_distributor_unprotected", "docker_web_distributor_name_cli" >>
AllowSet == {AllowList[i] : i \in 1..Len(AllowList)}
Position(id) == CHOOSE i \in 1..Len(AllowList) : AllowList[i] = id

\* The last call is a publish that got past the client check.
PublishSubmitted == last.op = "publish" /\ last.raised = None
\* The list that publish submitted, and the ids of its distributors.
Submitted == last.issued[2].to_publish
SubmittedIds == [i \in 1..Len(Submitted) |-> Submitted[i].distributor.id]
IsSubmitted(id) == \E i \in 1..Len(Submitted) : SubmittedIds[i] = id
RepoHas(id) == \E k \in 1..Len(repo.distributors) : repo.distributors[k].id = id
RepoIds == [k \in 1..Len(repo.distributors) |-> repo.distributors[k].id]

\* The options in effect in the last publish: the first replacement an
\* extension returned, the caller's when there is none.
OptionsInEffect ==
    LET rets == last.args.hook_rets
        idx == {i \in 1..Len(rets) : rets[i] # None}
    IN IF idx = {} THEN last.args.options
       ELSE rets[CHOOSE i \in idx : \A j \in idx : i <= j]

\* C1: a call of search_content, publish, sync or remove_content on a
\* repository with no client raises the detached error, and has made no
\* remote call and activated no hook; it returns no handle, so none follows.
C1_DetachedRaisesBeforeAnyCall ==
    [][(/\ last = NoCall
        /\ last' # NoCall
        /\ last'.op \in {"search_content", "publish", "sync", "remove_content"}
        /\ ~Truthy(client))
       => (/\ last'.raised = PyStr("DetachedException")
           /\ last'.issued = <<>>
           /\ last'.handle = "none")]_vars

\* C1 witness: a publish on a detached repository has raised.
C1_Witness ==
    /\ last.op = "publish"
    /\ client = None
    /\ last.raised = PyStr("DetachedException")

\* C2: the list publish submits holds only distributors of the repository
\* with an id of the allow-list, in the order of the allow-list and so each at
\* most once, whatever the order the repository stores them in.
C2_SubmittedInAllowListOrder ==
    PublishSubmitted =>
        /\ \A i \in 1..Len(Submitted) :
              /\ SubmittedIds[i] \in AllowSet
              /\ \E k \in 1..Len(repo.distributors) :
                    repo.distributors[k] = Submitted[i].distributor
        /\ \A i, j \in 1..Len(Submitted) :
              i < j => Position(SubmittedIds[i]) < Position(SubmittedIds[j])

\* C2 witness: a repository that stores two allow-listed distributors against
\* the order of the allow-list has had the two submitted in that order.
C2_Witness ==
    /\ PublishSubmitted
    /\ Len(repo.distributors) >= 2
    /\ RepoIds[1] = "cdn_distributor"
    /\ RepoIds[2] = "iso_distributor"
    /\ SubmittedIds = <<"iso_distributor", "cdn_distributor">>

\* C3: publish leaves docker_web_distributor_name_cli out when the options in
\* effect have origin_only=True and submits it, if the repository has it, when
\* origin_only is False or unset; every other allow-listed distributor of the
\* repository is submitted whatever origin_only is.
C3_OriginOnlySkipsOnlyDocker ==
    PublishSubmitted =>
        /\ IsSubmitted("docker_web_distributor_name_cli")
              <=> (/\ RepoHas("docker_web_distributor_name_cli")
                   /\ OptionsInEffect.origin_only # True)
        /\ \A id \in AllowSet \ {"docker_web_distributor_name_cli"} :
              IsSubmitted(id) <=> RepoHas(id)

\* C3 witness: an origin_only publish of a repository with the yum and the
\* docker distributor has submitted the yum distributor alone.
C3_Witness ==
    /\ PublishSubmitted
    /\ OptionsInEffect.origin_only = True
    /\ RepoHas("docker_web_distributor_name_cli")
    /\ RepoHas("yum_distributor")
    /\ SubmittedIds = <<"yum_distributor">>

\* The names of the calls a chain has made, in order.
CallNames(ch) == [i \in 1..Len(ch.calls) |-> ch.calls[i].call]
HasCall(ch, name) == \E i \in 1..Len(ch.calls) : ch.calls[i].call = name
IsPrefix(p, q) == Len(p) <= Len(q) /\ \A i \in 1..Len(p) : p[i] = q[i]

\* The calls of a whole chain, in the order of its steps.
StepsOf(ch) ==
    << "_request_upload" >>
    \o (IF ch.file_obj = None THEN <<>> ELSE << "_do_upload_file" >>)
    \o << "unit_key_fn", "unit_metadata_fn", "_do_import", "_delete_upload_request" >>

\* C4: in a chain the upload of the bytes is started only when the upload
\* request has resolved, the import is submitted only when the upload of the
\* bytes (or, with no file, the upload request) has resolved, and the delete
\* is issued only when the import has resolved; the calls are made in the
\* order of the steps, each once.
C4_StepsWaitForPredecessor ==
    \A c \in Chains :
        LET ch == chains[c]
        IN /\ ch.do_upload_f.st # "none" => ch.request_f.st = "ok"
           /\ ch.do_import_f.st # "none" =>
                 /\ ch.request_f.st = "ok"
                 /\ ch.file_obj # None => ch.do_upload_f.st = "ok"
           /\ ch.delete_f.st # "none" => ch.do_import_f.st = "ok"
           /\ IsPrefix(CallNames(ch), StepsOf(ch))
           /\ HasCall(ch, "_do_upload_file") <=> ch.do_upload_f.st # "none"
           /\ HasCall(ch, "_do_import") <=> ch.do_import_f.st # "none"
           /\ HasCall(ch, "_delete_upload_request") <=> ch.delete_f.st # "none"

\* C4 witness: a chain with a file has gone through all its steps.
C4_Witness ==
    \E c \in Chains :
        /\ chains[c].file_obj # None
        /\ CallNames(chains[c]) = StepsOf(chains[c])

\* C5 as claimed: once the upload request has given an upload id and the
\* import step has completed, with a result or with a failure (its own, or
\* that of the upload of the bytes), the delete of the upload request has
\* been issued.
C5_DeleteIssuedOnAnyCompletion ==
    \A c \in Chains :
        (/\ chains[c].request_f.st = "ok"
         /\ IsDone(chains[c].import_complete_f))
        => chains[c].delete_f.st # "none"

\* C6: the handle a chain returns has the outcome of the import: pending
\* while the import is, and its result or failure when it has resolved,
\* whatever the state of the delete.
C6_HandleIsImportOutcome ==
    \A c \in Chains :
        LET ch == chains[c]
        IN ch.do_import_f.st # "none" => chain_handle(ch) = ch.do_import_f

\* C6 witness: the delete has failed and the handle holds the result of the
\* import.
C6_Witness ==
    \E c \in Chains :
        /\ chains[c].delete_f.st = "err"
        /\ chains[c].do_import_f.st = "ok"
        /\ chain_handle(chains[c]) = chains[c].do_import_f

\* C7: a chain called with no file never uploads bytes, calls the unit key
\* and unit metadata functions with None, and still requests the upload and,
\* once that has resolved, submits the import.
C7_NoFileNoUpload ==
    \A c \in Chains :
        LET ch == chains[c]
        IN (ch.st = "running" /\ ch.file_obj = None) =>
              /\ ~HasCall(ch, "_do_upload_file")
              /\ ch.do_upload_f.st = "none"
              /\ \A i \in 1..Len(ch.calls) :
                    ch.calls[i].call \in {"unit_key_fn", "unit_metadata_fn"}
                        => ch.calls[i].arg = None
              /\ ch.calls[1].call = "_request_upload"
              /\ ch.request_f.st = "ok" =>
                    /\ HasCall(ch, "unit_key_fn")
                    /\ HasCall(ch, "unit_metadata_fn")
                    /\ HasCall(ch, "_do_import")

\* C7 witness: a chain with no file has submitted its import.
C7_Witness ==
    \E c \in Chains :
        /\ chains[c].st = "running"
        /\ chains[c].file_obj = None
        /\ chains[c].do_import_f.st = "pending"

\* A distributor whose repo_id is set and is not the id.
Mismatched(distributor, id) ==
    /\ distributor.repo_id # None
    /\ distributor.repo_id # PyStr("")
    /\ distributor.repo_id # PyStr(id)

\* C8 as claimed: a construction is rejected exactly when one of the
\* distributors, at whatever position, has a repo_id that is set and differs
\* from the id of the repository.
C8_RejectedIffAnyMismatch ==
    ctor.st = "done" =>
        (ctor.out.py = "raise"
            <=> \E i \in 1..Len(ctor.distributors) : Mismatched(ctor.distributors[i], ctor.id))

\* The keys of the mutable note fields, as the specification names them.
MutableNoteKeys ==
    {"product_versions", "include_in_download_service",
     "include_in_download_service_preview"}

\* C9: the mutable-notes payload holds only keys of the mutable note fields,
\* never id, type or another immutable field; it holds the key of a mutable
\* note field exactly when the encoded form has a value for it, and with that
\* value.
C9_MutableNotesOnlyMutableKeys ==
    notes.st = "done" =>
        /\ DOMAIN notes.out \subseteq MutableNoteKeys
        /\ \A k \in MutableNoteKeys :
              /\ k \in DOMAIN notes.out <=> <<"notes", k>> \in DOMAIN notes.self_raw
              /\ k \in DOMAIN notes.out => notes.out[k] = notes.self_raw[<<"notes", k>>]

\* C9 witness: the encoded form has the type and the arch and lacks the
\* product versions, and the payload holds the two remaining mutable keys.
C9_Witness ==
    /\ notes.st = "done"
    /\ <<"notes", "_repo-type">> \in DOMAIN notes.self_raw
    /\ <<"notes", "arch">> \in DOMAIN notes.self_raw
    /\ <<"notes", "product_versions">> \notin DOMAIN notes.self_raw
    /\ DOMAIN notes.out = {"include_in_download_service",
                           "include_in_download_service_preview"}

\* C10: remove_content on an attached repository issues exactly one
\* unassociate call for the repository: with no criteria and no type_ids, one
\* with no criteria, and with a criteria, one with that criteria.
C10_RemoveContentOneUnassociate ==
    (last.op = "remove_content" /\ last.raised = None) =>
        /\ Len(last.issued) = 1
        /\ last.issued[1].call = "_do_unassociate"
        /\ last.issued[1].repo_id = repo.id
        /\ (last.args.criteria = None /\ last.args.type_ids = None)
              => last.issued[1].criteria = None
        /\ last.args.criteria # None => last.issued[1].criteria = last.args.criteria

\* C10 witness: a remove_content with a criteria, and type_ids as well, has
\* issued its call.
C10_Witness ==
    /\ last.op = "remove_content"
    /\ last.raised = None
    /\ last.args.criteria # None
    /\ last.args.type_ids # None
    /\ last.issued[1].criteria = last.args.criteria

\* The last call is a sync that issued its request, and the payload of it.
SyncSubmitted == last.op = "sync" /\ last.raised = None
SyncPayload == last.issued[1].sync_config

\* The value of field f in the options the last sync stands for: the
\* caller's, or, when sync was called without options, options whose only
\* value is the empty feed.
SyncValue(f) ==
    IF last.args.options = None
    THEN (IF f = "feed" THEN PyStr("") ELSE None)
    ELSE last.args.options.fields[f]

\* C11: the payload of a sync holds the key of an option exactly when the
\* option has a value (is not None), with that value, and never a key whose
\* value is None; so for every SyncOptions and for a sync without options.
C11_SyncPayloadOmitsUnset ==
    SyncSubmitted =>
        /\ Len(last.issued) = 1
        /\ last.issued[1].call = "_do_sync"
        /\ DOMAIN SyncPayload \subseteq SyncFieldSet
        /\ \A f \in SyncFieldSet : (f \in DOMAIN SyncPayload) <=> (SyncValue(f) # None)
        /\ \A f \in DOMAIN SyncPayload :
               SyncPayload[f] # None /\ SyncPayload[f] = SyncValue(f)

\* C11 witness: a sync whose options set ssl_validation to False and leave
\* the rest but the feed unset has sent exactly these two keys.
C11_Witness ==
    /\ SyncSubmitted
    /\ last.args.options # None
    /\ DOMAIN SyncPayload = {"feed", "ssl_validation"}
    /\ SyncPayload["ssl_validation"] = False
    /\ \E f \in SyncFieldSet : last.args.options.fields[f] = None

\* A sync without options has sent the empty feed and nothing else.
C11_NoOptionsReached ==
    /\ SyncSubmitted
    /\ last.args.options = None
    /\ DOMAIN SyncPayload = {"feed"}
    /\ SyncPayload["feed"] = PyStr("")

\* The places of the post-publish hook among the calls of the last publish.
PublishedHookCalls ==
    {i \in 1..Len(last.issued) : last.issued[i].call = "pulp_repository_published"}

\* C12: in a publish whose request succeeds the post-publish hook is called
\* exactly once, after the publish request and not before its tasks are
\* there, and the handle is resolved only once the hook has been called, with
\* the task list of the request as it is.
C12_PublishedHookOnceThenTasks ==
    PublishSubmitted =>
        /\ last.request.st = "pending" =>
               PublishedHookCalls = {} /\ last.handle = "pending"
        /\ last.request.st = "ok" =>
               /\ PublishedHookCalls = {3}
               /\ last.issued[2].call = "_publish_repository"
               /\ Len(last.issued) = 3
               /\ last.handle = "resolved"
               /\ last.result = last.request.val
        /\ last.handle = "resolved" => last.request.st = "ok"

\* C12 witness: a publish whose request gave two tasks has called the hook
\* and its handle holds the two tasks.
C12_Witness ==
    /\ PublishSubmitted
    /\ last.request = Resolved(PyList(<<"task1", "task2">>))
    /\ last.issued[3].call = "pulp_repository_published"
    /\ last.handle = "resolved"
    /\ last.result = PyList(<<"task1", "task2">>)

\* C13, as claimed: the post-publish hook of every publish gets the
\* repository publish was called on and the options the caller passed, also
\* when an extension of the pre-publish hook returned a replacement.
C13_PublishedHookGetsCallerOptions ==
    PublishSubmitted =>
        \A i \in PublishedHookCalls :
            /\ last.issued[i].repository = repo
            /\ last.issued[i].options = last.args.options

\* C13, amended: the post-publish hook of every publish gets the repository
\* publish was called on and the options in effect in the publish: the first
\* replacement an extension of the pre-publish hook returned, and the
\* caller's options only when there is none.
C13_PublishedHookGetsOptionsInEffect ==
    PublishSubmitted =>
        \A i \in PublishedHookCalls :
            /\ last.issued[i].repository = repo
            /\ last.issued[i].options = OptionsInEffect

\* C13 witness: a publish in which an extension replaced the caller's options
\* by other ones has called its post-publish hook, with the replacement.
C13_Witness ==
    /\ PublishSubmitted
    /\ PublishedHookCalls # {}
    /\ OptionsInEffect # last.args.options
    /\ last.issued[3].options = OptionsInEffect

\* C14: publish activates the pre-publish hook, and so every extension
\* registered on it, with the repository and the options of the caller; the
\* options that decide whether the docker distributor is left out and that
\* give each distributor its config are the first replacement returned that
\* is not None, in the order of the hook's results, and the caller's when
\* every extension returned None or there is no extension.
C14_FirstReplacementInEffect ==
    PublishSubmitted =>
        /\ last.issued[1] = [call |-> "pulp_repository_pre_publish", repository |-> repo,
                             options |-> last.args.options]
        /\ (\A i \in 1..Len(last.args.hook_rets) : last.args.hook_rets[i] = None)
               => OptionsInEffect = last.args.options
        /\ \A i \in 1..Len(Submitted) :
               Submitted[i].config =
                   _config_for_distributor(Submitted[i].distributor, OptionsInEffect)
        /\ RepoHas("docker_web_distributor_name_cli") =>
               (IsSubmitted("docker_web_distributor_name_cli")
                    <=> ~Truthy(OptionsInEffect.origin_only))

\* C14 witness: two extensions returned two replacements, and what publish
\* submitted follows the first and differs from what the second gives.
C14_Witness ==
    /\ PublishSubmitted
    /\ Len(last.args.hook_rets) = 2
    /\ last.args.hook_rets[1] # None
    /\ last.args.hook_rets[2] # None
    /\ Len(Submitted) > 0
    /\ Submitted[1].config =
           _config_for_distributor(Submitted[1].distributor, last.args.hook_rets[1])
    /\ Submitted[1].config #
           _config_for_distributor(Submitted[1].distributor, last.args.hook_rets[2])
    /\ Submitted[1].config #
           _config_for_distributor(Submitted[1].distributor, last.args.options)

\* The places of the publish request among the calls of the last publish.
PublishRequests ==
    {i \in 1..Len(last.issued) : last.issued[i].call = "_publish_repository"}

\* C15: when the publish request fails, as it does when one of its tasks
\* fails, the handle of publish fails with that failure, the post-publish
\* hook is not called, and publish has made one publish request, no second.
C15_FailedPublishNoHookNoRetry ==
    (PublishSubmitted /\ last.request.st = "err") =>
        /\ last.handle = "failed"
        /\ last.result = last.request.val
        /\ PublishedHookCalls = {}
        /\ PublishRequests = {2}
        /\ Len(last.issued) = 2

\* C15 witness: a publish that submitted a distributor has had its request
\* fail, and its handle has failed.
C15_Witness ==
    /\ PublishSubmitted
    /\ Len(Submitted) > 0
    /\ last.request = Failed(PyStr("TaskFailedException"))
    /\ last.handle = "failed"

\* The config C20 gives a distributor has key k exactly when HasKey, and
\* then with the value of the option OptionOf names.
OptionOf(k) ==
    CASE k = "delete" -> OptionsInEffect.clean
      [] k = "content_units_only" -> OptionsInEffect.origin_only
      [] k = "rsync_extra_args" -> OptionsInEffect.rsync_extra_args
      [] k = "force_full" -> OptionsInEffect.force
ConfigKeys == {"delete", "content_units_only", "rsync_extra_args", "force_full"}
HasKey(distributor, k) ==
    /\ OptionOf(k) # None
    /\ k # "force_full" => distributor.is_rsync

\* C20: the config publish sends for a distributor holds delete,
\* content_units_only and rsync_extra_args only when the distributor is
\* rsync-capable, with the options' clean, origin_only and rsync_extra_args,
\* and force_full, with the options' force, for every distributor; a key is
\* there only when its option is not None, so that options whose fields are
\* all None give every distributor the empty config.
C20_ConfigPerDistributorKind ==
    PublishSubmitted =>
        \A i \in 1..Len(Submitted) :
            LET config == Submitted[i].config
                distributor == Submitted[i].distributor
            IN /\ DOMAIN config \subseteq ConfigKeys
               /\ \A k \in ConfigKeys : (k \in DOMAIN config) <=> HasKey(distributor, k)
               /\ \A k \in DOMAIN config : config[k] = OptionOf(k)
               /\ OptionsInEffect = PublishOptions(None, None, None, None)
                      => DOMAIN config = {}

\* C20 witness: with every option set, publish has submitted an
\* rsync-capable distributor with the four keys and another distributor with
\* force_full alone.
C20_Witness ==
    /\ PublishSubmitted
    /\ OptionsInEffect = PublishOptions(True, True, True, PyList(<<"-a">>))
    /\ \E i, j \in 1..Len(Submitted) :
           /\ Submitted[i].distributor.is_rsync
           /\ DOMAIN Submitted[i].config = ConfigKeys
           /\ ~Submitted[j].distributor.is_rsync
           /\ DOMAIN Submitted[j].config = {"force_full"}
           /\ Submitted[j].config["force_full"] = True

\* Options whose fields are all None have given a submitted distributor the
\* empty config.
C20_DefaultOptionsReached ==
    /\ PublishSubmitted
    /\ OptionsInEffect = PublishOptions(None, None, None, None)
    /\ \E i \in 1..Len(Submitted) :
           Submitted[i].distributor.is_rsync /\ DOMAIN Submitted[i].config = {}

\* A pv_converter call has returned; the strs of its argument; whether every
\* component of every one of them is an integer to int.
PvDone == pvcall.st = "done"
PvStrs == [i \in 1..Len(pvcall.versions) |-> str_version(pvcall.versions[i])]
PvAllParse == \A i \in 1..Len(PvStrs) : ~key_raises(PvStrs[i])
Occurrences(items, x) == Cardinality({i \in 1..Len(items) : items[i] = x})

\* C18: pv_converter returns the versions it was given, each as a str: in
\* the order of their components compared as numbers when every component of
\* every version is an integer to int (8.10 behind 8.8), and in the order of
\* the whole strs when some component is not.
C18_PvConverterOrder ==
    PvDone =>
        /\ Len(pvcall.result) = Len(pvcall.versions)
        /\ \A i \in 1..Len(pvcall.result) :
               /\ pvcall.result[i].py = "str"
               /\ Occurrences(pvcall.result, pvcall.result[i])
                      = Occurrences(PvStrs, pvcall.result[i])
        /\ PvAllParse =>
               \A i, j \in 1..Len(pvcall.result) :
                   i < j => ~list_lt(version_key(pvcall.result[j]),
                                     version_key(pvcall.result[i]))
        /\ ~PvAllParse =>
               \A i, j \in 1..Len(pvcall.result) :
                   i < j => ~str_lt(pvcall.result[j], pvcall.result[i])

\* C18 witness: of "8.10", the int 9 and "8.8", pv_converter has returned
\* "8.8", "8.10", "9".
C18_Witness ==
    /\ PvDone
    /\ pvcall.versions = << VStr(<< "8", ".", "1", "0" >>), VInt(9),
                            VStr(<< "8", ".", "8" >>) >>
    /\ pvcall.result = << VStr(<< "8", ".", "8" >>), VStr(<< "8", ".", "1", "0" >>),
                          VStr(<< "9" >>) >>

\* Of "8.8", "abc" and "8.10", pv_converter has returned "8.10", "8.8",
\* "abc": the order of the strs.
C18_StrOrderReached ==
    /\ PvDone
    /\ pvcall.versions = << VStr(<< "8", ".", "8" >>), VStr(<< "a", "b", "c" >>),
                            VStr(<< "8", ".", "1", "0" >>) >>
    /\ pvcall.result = << VStr(<< "8", ".", "1", "0" >>), VStr(<< "8", ".", "8" >>),
                          VStr(<< "a", "b", "c" >>) >>

\* The record of the server is a lock that is held and not expired.
HeldUnexpired == locks.record # None /\ ~Expired(locks.record, locks.now)

\* C16: an acquire on a repository whose lock is held and not expired fails
\* with LockedError and leaves the record of the holder as it is; an acquire
\* by another holder once the duration of the held lock has elapsed does
\* not fail, and when it is through that holder is the one recorded.
C16_AcquireHeldFailsExpiredSucceeds ==
    [][\A c \in LockClients :
          /\ (locks.st[c] = "made" /\ locks'.st[c] # "made") =>
                 IF HeldUnexpired
                 THEN locks'.st[c] = "locked" /\ locks'.record = locks.record
                 ELSE locks'.st[c] \in {"holding", "superseding"}
          /\ locks.st[c] = "superseding" => locks'.st[c] \in {"superseding", "holding"}
          /\ (locks.st[c] \in {"made", "superseding"} /\ locks'.st[c] = "holding") =>
                 /\ locks'.record = LockRecord(LockClient(c), locks.now, locks.lk[c].duration)
                 /\ locks'.held[c] = locks'.record]_vars

\* C16 witness: process 1 took the lock at time 0 for one second and has not
\* released it; process 2 is the recorded holder, from a later acquire.
C16_Witness ==
    /\ locks.st[1] = "holding"
    /\ locks.held[1] = LockRecord(LockClient(1), 0, VInt(1))
    /\ locks.st[2] = "holding"
    /\ locks.record.holder = LockClient(2)
    /\ locks.record.acquired > 1

\* The acquire of process 2 has failed on the unexpired lock of process 1,
\* which is still the one recorded.
C16_LockedReached ==
    /\ locks.st[2] = "locked"
    /\ locks.st[1] = "holding"
    /\ locks.record = locks.held[1]
    /\ ~Expired(locks.record, locks.now)

\* Process c believes it holds an unexpired lock: it acquired one, has not
\* released it, and its duration has not elapsed.
BelievesHeld(c) ==
    /\ locks.st[c] = "holding"
    /\ ~Expired(locks.held[c], locks.now)

\* C17: at any time at most one client holds the lock of the repository:
\* whatever the interleaving of acquire, release and supersede, no two
\* clients both believe they hold an unexpired lock on it.
C17_AtMostOneHolder ==
    \A c1, c2 \in LockClients : (BelievesHeld(c1) /\ BelievesHeld(c2)) => c1 = c2

\* C19: entities are immutable: in any sequence of publish, sync,
\* remove_content, search_content and upload-then-import calls on a
\* Repository no step changes a field of the Repository, and none changes
\* what the caller passed to a call: its options, its criteria, its file.
C19_RepositoryAndOptionsUnchanged ==
    [][/\ repo' = repo
       /\ (last.op # "none" /\ last'.op # "none") =>
              /\ last'.op = last.op
              /\ \A a \in {"options", "criteria", "type_ids"} :
                     a \in DOMAIN last.args =>
                         a \in DOMAIN last'.args /\ last'.args[a] = last.args[a]
       /\ \A c \in Chains :
              (chains[c].st # "idle" /\ chains'[c].st # "idle") =>
                  /\ chains'[c].file_obj = chains[c].file_obj
                  /\ chains'[c].unit_key_fn = chains[c].unit_key_fn
                  /\ chains'[c].unit_metadata_fn = chains[c].unit_metadata_fn]_vars

\* C19 witness: a publish on a repository with distributors, in which an
\* extension replaced the options, has resolved, and the options of the
\* caller are still the ones passed, not the replacement.
C19_Witness ==
    /\ PublishSubmitted
    /\ last.handle = "resolved"
    /\ Len(repo.distributors) > 0
    /\ last.args.options = PublishOptions(None, None, None, None)
    /\ last.args.closure_options = PublishOptions(True, None, False, None)

\* An upload-then-import on a repository with distributors has run to the
\* end of its import.
C19_UploadReached ==
    /\ Len(repo.distributors) > 0
    /\ chains[1].import_complete_f.st = "ok"
    /\ chains[1].file_obj # None

\* How often a chain has made the call of a name.
CallCount(ch, name) == Cardinality({i \in 1..Len(ch.calls) : ch.calls[i].call = name})

\* The failure of the upload request or of the upload of the bytes of a
\* chain, if one of them failed.
UploadFailure(ch) ==
    IF ch.request_f.st = "err" THEN ch.request_f ELSE ch.do_upload_f

\* C21: in a chain whose upload request or upload of the bytes has failed,
\* the handle has failed with that failure, no import has been submitted,
\* and no step has been made a second time.
C21_UploadFailureNoImportNoRetry ==
    \A c \in Chains :
        LET ch == chains[c]
        IN (ch.request_f.st = "err" \/ ch.do_upload_f.st = "err") =>
              /\ chain_handle(ch) = UploadFailure(ch)
              /\ ~HasCall(ch, "_do_import")
              /\ ch.do_import_f.st = "none"
              /\ ~HasCall(ch, "_delete_upload_request")
              /\ CallCount(ch, "_request_upload") = 1
              /\ CallCount(ch, "_do_upload_file") =
                     (IF ch.request_f.st = "ok" THEN 1 ELSE 0)

\* C21 witness: the upload of the bytes of a chain has failed behind a good
\* upload request, and the handle holds that failure.
C21_Witness ==
    \E c \in Chains :
        /\ chains[c].request_f.st = "ok"
        /\ chains[c].do_upload_f = Failed(PyStr("PulpException: upload"))
        /\ chain_handle(chains[c]) = Failed(PyStr("PulpException: upload"))
        /\ CallNames(chains[c]) = << "_request_upload", "_do_upload_file" >>

\* The upload request of a chain has failed, and the handle holds that
\* failure.
C21_RequestFailureReached ==
    \E c \in Chains :
        /\ chains[c].request_f = Failed(PyStr("PulpException: request_upload"))
        /\ chain_handle(chains[c]) = chains[c].request_f
        /\ CallNames(chains[c]) = << "_request_upload" >>

\* The calls of a chain that are made with an upload id.
WithUploadId == {"_do_upload_file", "_do_import", "_delete_upload_request"}

\* C22: with several chains running interleaved, the upload of the bytes,
\* the import and the delete of each chain are made with the upload id that
\* the upload request of that same chain resolved with, and so only once
\* that request has resolved with one.
C22_ChainUsesOwnUploadId ==
    \A c \in Chains :
        \A i \in 1..Len(chains[c].calls) :
            chains[c].calls[i].call \in WithUploadId =>
                /\ chains[c].request_f.st = "ok"
                /\ chains[c].calls[i].upload_id = chains[c].request_f.val.upload_id

\* C22 witness: two chains whose upload requests resolved with different
\* ids have both issued their delete, one of them while the other was still
\* importing, each with its own id.
C22_Witness ==
    \E c1, c2 \in Chains :
        /\ chains[c1].request_f.st = "ok"
        /\ chains[c2].request_f.st = "ok"
        /\ chains[c1].request_f.val.upload_id # chains[c2].request_f.val.upload_id
        /\ HasCall(chains[c1], "_delete_upload_request")
        /\ HasCall(chains[c2], "_do_import")
        /\ chains[c2].do_import_f.st = "pending"
        /\ chains[c1].calls[Len(chains[c1].calls)].upload_id
               = chains[c1].request_f.val.upload_id
        /\ chains[c2].calls[Len(chains[c2].calls)].upload_id
               = chains[c2].request_f.val.upload_id

\* A from_data call has returned; the "_repo-type" of the notes of its data,
\* None when the data has no notes, null notes, or notes without one; the
\* types a subclass is registered for.
DecodeDone == decode.st = "done"
DataRepoType ==
    IF decode.data.notes \in {ABSENT, None} THEN None
    ELSE IF decode.data.notes.repo_type = ABSENT THEN None
    ELSE decode.data.notes.repo_type
RegisteredTypes == {t \in DOMAIN decode.REPO_CLASSES : DataRepoType = PyStr(t)}

\* C23: from_data on the base Repository hands the data to the subclass
\* registered for its notes._repo-type and decodes it as that subclass; it
\* decodes it as a plain Repository when there is no discriminator, no notes
\* or null notes, or no subclass registered for the discriminator; and
\* from_data on a subclass decodes as that subclass, whatever the
\* discriminator, without another dispatch.
C23_FromDataDispatch ==
    DecodeDone =>
        /\ (decode.cls = "Repository" /\ RegisteredTypes # {}) =>
               \A t \in RegisteredTypes :
                   /\ decode.object.py = decode.REPO_CLASSES[t]
                   /\ decode.calls = << "Repository", decode.REPO_CLASSES[t] >>
        /\ (decode.cls = "Repository" /\ RegisteredTypes = {}) =>
               /\ decode.object.py = "Repository"
               /\ decode.calls = << "Repository" >>
        /\ decode.cls # "Repository" =>
               /\ decode.object.py = decode.cls
               /\ decode.calls = << decode.cls >>

\* C23 witness: with both subclasses registered, Repository.from_data on
\* data of type rpm-repo has decoded a YumRepository.
C23_Witness ==
    /\ DecodeDone
    /\ decode.cls = "Repository"
    /\ DOMAIN decode.REPO_CLASSES = {"rpm-repo", "iso-repo"}
    /\ DataRepoType = PyStr("rpm-repo")
    /\ decode.object.py = "YumRepository"

\* FileRepository.from_data on data of type rpm-repo, for which YumRepository
\* is registered, has decoded a FileRepository.
C23_SubclassReached ==
    /\ DecodeDone
    /\ decode.cls = "FileRepository"
    /\ "rpm-repo" \in DOMAIN decode.REPO_CLASSES
    /\ DataRepoType = PyStr("rpm-repo")
    /\ decode.object.py = "FileRepository"

\* Repository.from_data on data with null notes, and on data of a type no
\* subclass is registered for, has decoded a plain Repository.
C23_GenericReached ==
    /\ DecodeDone
    /\ decode.cls = "Repository"
    /\ DOMAIN decode.REPO_CLASSES = {"rpm-repo", "iso-repo"}
    /\ decode.data.notes = None \/ DataRepoType = PyStr("docker-repo")
    /\ decode.object.py = "Repository"

\* The distributors of the data of a from_data call, none when the data has
\* no list or a null one; the places of those that give relative_url and of
\* those that give skip_rsync_repodata; the config at a place as read.
DataDists ==
    IF decode.data.distributors \in {ABSENT, None} THEN <<>>
    ELSE decode.data.distributors.items
UrlPlaces ==
    {i \in 1..Len(DataDists) :
        DataDists[i].distributor_type_id \in {"yum_distributor", "iso_distributor"}}
ConfigValue(i, key) ==
    IF DataDists[i].config \in {ABSENT, None} THEN None
    ELSE IF DataDists[i].config[key] = ABSENT THEN None
    ELSE DataDists[i].config[key]
SkipPlaces ==
    {i \in 1..Len(DataDists) :
        DataDists[i].id = "cdn_distributor" /\ ConfigValue(i, "skip_repodata") # None}
LastOf(places) == CHOOSE i \in places : \A j \in places : j <= i

\* C25: the relative_url of a decoded repository is that of the config of
\* the last yum_distributor or iso_distributor of the data, None when that
\* config has none; its skip_rsync_repodata is the skip_repodata of the
\* config of a cdn_distributor that has one which is not null; and without
\* such distributors they are the defaults, None and False.
C25_DerivedFromDistributors ==
    DecodeDone =>
        /\ decode.object.relative_url =
               (IF UrlPlaces = {} THEN None
                ELSE ConfigValue(LastOf(UrlPlaces), "relative_url"))
        /\ decode.object.skip_rsync_repodata =
               (IF SkipPlaces = {} THEN False
                ELSE ConfigValue(LastOf(SkipPlaces), "skip_repodata"))
        /\ ("relative_url" \in DOMAIN decode.init_args) <=> (UrlPlaces # {})
        /\ ("skip_rsync_repodata" \in DOMAIN decode.init_args) <=> (SkipPlaces # {})

\* C25 witness: of a yum_distributor with content/a and an iso_distributor
\* with content/b behind it, the decoded repository has content/b.
C25_Witness ==
    /\ DecodeDone
    /\ Len(DataDists) = 2
    /\ ConfigValue(1, "relative_url") = PyStr("content/a")
    /\ ConfigValue(2, "relative_url") = PyStr("content/b")
    /\ decode.object.relative_url = PyStr("content/b")

\* Of a yum_distributor with content/a and one without a config behind it,
\* the decoded repository has relative_url None.
C25_MissingUrlReached ==
    /\ DecodeDone
    /\ Len(DataDists) = 2
    /\ ConfigValue(1, "relative_url") = PyStr("content/a")
    /\ UrlPlaces = {1, 2}
    /\ DataDists[2].config = None
    /\ decode.object.relative_url = None

\* Of a cdn_distributor with skip_repodata True and one with a null
\* skip_repodata behind it, the decoded repository has True.
C25_SkipReached ==
    /\ DecodeDone
    /\ Len(DataDists) = 2
    /\ DataDists[1].id = "cdn_distributor"
    /\ DataDists[2].id = "cdn_distributor"
    /\ SkipPlaces = {1}
    /\ decode.object.skip_rsync_repodata = True

\* C24: once a Repository has been attached to a client, or detached, each
\* of its distributors has the client of the repository: in no state do the
\* repository and one of its distributors have different clients.
C24_DistributorsShareClient ==
    /\ Len(dclient) = Len(repo.distributors)
    /\ \A i \in 1..Len(repo.distributors) : dclient[i] = client

\* C24 witness: a repository with two distributors has been attached, and
\* both distributors have its client.
C24_Witness ==
    /\ client = TheClient
    /\ Len(repo.distributors) = 2
    /\ dclient = << TheClient, TheClient >>

====
